---------------------------- MODULE Spec2Model ----------------------------
(***************************************************************************)
(* A state-machine model of libvaraction, the evaluation core of the       *)
(* var/action script language: the operation dispatch table, the tree      *)
(* evaluator (ProcessVariable / ProcessIF / ProcessExpr / statement        *)
(* lists), the assignment operator family, and the symbol tables           *)
(* (declaration list and global system-variable cache).                    *)
(*                                                                         *)
(* Conventions                                                             *)
(*   - a pointer is a node (statement, buffer) index, NULL is 0;           *)
(*   - the VarObject value union is kept as its raw storage: two 16-bit    *)
(*     halves hi/lo of the low 32 bits (little-endian host: val.ui is lo,  *)
(*     val.ul is hi:lo, val.f is the IEEE-754 single held in hi:lo) and    *)
(*     the string pointer member str;                                      *)
(*   - errno values are kept by name;                                      *)
(*   - every evaluator function takes the machine state st (nodes, heap,   *)
(*     store, trace, env) and returns [st, rc].                            *)
(***************************************************************************)
EXTENDS Integers, Sequences, FiniteSets, TLC

VARIABLES
    va_op,            \* the operation map: operation code -> handler
    nodes,            \* the Variable nodes allocated so far
    stmts,            \* the Statement objects of the compiled action
    heap,             \* string buffers
    store,            \* the external variable store (varserver)
    g_pDeclarations,  \* head of the declaration list of the current action
    g_pFirstSysvar,   \* head of the global system-variable list
    g_pLastSysvar,    \* tail of the global system-variable list
    root,             \* what the caller evaluates: [kind, p]
    trace,            \* what the last call did, in order
    rc,               \* what the last call returned
    prev,             \* nodes as they were when the last call started
    last,             \* the last call: [op, ...]
    runs,             \* number of calls made so far
    timers,           \* the timer registry: id -> the handle timer_create wrote
    activeTimer,      \* the id of the timer that fired last
    os_timers         \* the timers that exist in the operating system

vars == << va_op, nodes, stmts, heap, store, g_pDeclarations, g_pFirstSysvar,
           g_pLastSysvar, root, trace, rc, prev, last, runs, timers,
           activeTimer, os_timers >>

NULL == 0

(***************************************************************************)
(* Operation codes (enum VarOperation).                                    *)
(***************************************************************************)
VA_ILLEGAL == 0
VA_ASSIGN == 1
VA_MUL == 2
VA_DIV == 3
VA_ADD == 4
VA_SUB == 5
VA_BAND == 6
VA_BOR == 7
VA_XOR == 8
VA_INC == 9
VA_DEC == 10
VA_LSHIFT == 11
VA_RSHIFT == 12
VA_AND == 13
VA_OR == 14
VA_NOT == 15
VA_EQUALS == 16
VA_NOTEQUALS == 17
VA_GT == 18
VA_LT == 19
VA_GTE == 20
VA_LTE == 21
VA_AND_EQUALS == 22
VA_OR_EQUALS == 23
VA_XOR_EQUALS == 24
VA_DIV_EQUALS == 25
VA_TIMES_EQUALS == 26
VA_PLUS_EQUALS == 27
VA_MINUS_EQUALS == 28
VA_SYSVAR == 29
VA_TOFLOAT == 30
VA_TOINT == 31
VA_TOSHORT == 32
VA_TOSTRING == 33
VA_NUM == 34
VA_FLOATNUM == 35
VA_LOCALVAR == 36
VA_STRING == 37
VA_IF == 38
VA_ELSE == 39
VA_FLOAT == 40
VA_INT == 41
VA_SHORT == 42
VA_CREATE_TICK == 43
VA_CREATE_TIMER == 44
VA_DELETE_TIMER == 45
VA_ACTIVE_TIMER == 46
VA_TIMER == 47
VA_OP_MAX == 48

(***************************************************************************)
(* errno values, by name.  SIGFPE is not a return code: it marks a call    *)
(* that never returned because the process was killed by the signal.       *)
(***************************************************************************)
EOK == "EOK"
EINVAL == "EINVAL"
ENOTSUP == "ENOTSUP"
ENOENT == "ENOENT"
ENOMEM == "ENOMEM"
EIO == "EIO"
SIGFPE == "SIGFPE"
SIGSEGV == "SIGSEGV"
Signals == { SIGFPE, SIGSEGV }

\* the values an int that was never written may hold
IntValues == { EOK, EINVAL, ENOTSUP, ENOENT, ENOMEM, EIO }

(***************************************************************************)
(* Variable types (varserver's VarType), by name.  VARTYPE_INVALID is the  *)
(* zero a calloc'ed node holds, TYPE_MISMATCH the -1 of TypeCheck.         *)
(***************************************************************************)
VARTYPE_INVALID == "INVALID"
VARTYPE_UINT16 == "UINT16"
VARTYPE_UINT32 == "UINT32"
VARTYPE_FLOAT == "FLOAT"
VARTYPE_STR == "STR"
TYPE_MISMATCH == "MISMATCH"

VAR_INVALID == 0

(***************************************************************************)
(* Bounds of the model.                                                    *)
(***************************************************************************)
MaxRuns == 1          \* evaluation passes over one compiled action
MaxNum == 2           \* numeric literals are drawn from 0..MaxNum
MaxStmts == 2         \* statements in a compound statement
MaxCalls == 4         \* NewIdentifier / SetDeclarations calls in one history
MaxSteps == 3         \* calls made on one compiled program, in any order
MaxCasts == 2         \* evaluations of casts of one source, in any order
MaxHandle == 1        \* timer_create hands out the handles 0..MaxHandle


(***************************************************************************)
(* The value union.  hi:lo is the raw 32-bit storage shared by val.ui,     *)
(* val.ul and val.f; str is the pointer member.                            *)
(***************************************************************************)
W16 == 65536

ZeroVal == [hi |-> 0, lo |-> 0, str |-> NULL]

\* val.ui read and written: the low half only
UI(v) == v.lo
SetUI(v, x) == [v EXCEPT !.lo = x % W16]

\* val.ul (and val.f) read and written: a pair [hi, lo]
UL(v) == [hi |-> v.hi, lo |-> v.lo]
SetUL(v, x) == [v EXCEPT !.hi = x.hi, !.lo = x.lo]

\* val.str written
SetStr(v, p) == [v EXCEPT !.str = p]

U32(n) == [hi |-> (n \div W16) % W16, lo |-> n % W16]

(***************************************************************************)
(* uint16_t / uint32_t arithmetic, modulo 2^16 and 2^32, on halves so      *)
(* that no intermediate value leaves the model checker's integers.         *)
(***************************************************************************)
Add16(x, y) == (x + y) % W16
Sub16(x, y) == (x + W16 - y) % W16
Mul16(x, y) ==
    ((x % 256) * y + (((x \div 256) * y) % 256) * 256) % W16

Add32(a, b) ==
    LET l == a.lo + b.lo
    IN  [hi |-> (a.hi + b.hi + (l \div W16)) % W16, lo |-> l % W16]

Sub32(a, b) ==
    LET borrow == IF a.lo < b.lo THEN 1 ELSE 0
    IN  [hi |-> (a.hi + W16 - b.hi - borrow) % W16,
         lo |-> (a.lo + W16 - b.lo) % W16]

\* the full 32-bit product of two 16-bit values
Wide16(x, y) ==
    LET p == (x % 256) * y          \* < 2^24
        q == (x \div 256) * y       \* < 2^24, weight 2^8
    IN  Add32([hi |-> p \div W16, lo |-> p % W16],
              [hi |-> q \div 256, lo |-> (q % 256) * 256])

Mul32(a, b) ==
    LET low == Wide16(a.lo, b.lo)
        cross == Add16(Mul16(a.hi, b.lo), Mul16(a.lo, b.hi))
    IN  [hi |-> Add16(low.hi, cross), lo |-> low.lo]

Geq32(a, b) == (a.hi > b.hi) \/ (a.hi = b.hi /\ a.lo >= b.lo)
IsZero32(a) == a.hi = 0 /\ a.lo = 0

\* bit i (0..31) of a
Bit32(a, i) == IF i < 16 THEN (a.lo \div (2^i)) % 2
                         ELSE (a.hi \div (2^(i - 16))) % 2

Shl1(a) == [hi |-> (a.hi * 2 + a.lo \div 32768) % W16, lo |-> (a.lo * 2) % W16]

\* restoring long division, bit i downto 0: [q, r]
RECURSIVE DivStep(_, _, _, _, _)
DivStep(a, b, i, q, r) ==
    IF i < 0 THEN [q |-> q, r |-> r]
    ELSE LET r1 == Add32(Shl1(r), U32(Bit32(a, i)))
             hit == r.hi >= 32768 \/ Geq32(r1, b)   \* 2r+bit >= b
             r2 == IF hit THEN Sub32(r1, b) ELSE r1
             q2 == Add32(Shl1(q), U32(IF hit THEN 1 ELSE 0))
         IN  DivStep(a, b, i - 1, q2, r2)

\* a / d for a 16-bit d # 0, a digit at a time: the high half, then the
\* two bytes of the low half
ShortDiv(a, d) ==
    LET t2 == (a.hi % d) * 256 + (a.lo \div 256)
        t3 == (t2 % d) * 256 + (a.lo % 256)
    IN  [hi |-> a.hi \div d, lo |-> ((t2 \div d) % 256) * 256 + (t3 \div d)]

\* a / b for b # 0; past a divisor of 2^16 or more the sixteen high bits of
\* a give no quotient bit and leave a.hi as the remainder
Div32(a, b) ==
    IF b.hi = 0 THEN ShortDiv(a, b.lo)
    ELSE DivStep(a, b, 15, U32(0), U32(a.hi)).q
Div16(x, y) == x \div y

RECURSIVE BitOp(_, _, _, _)
BitOp(f, x, y, n) ==
    IF n = 0 THEN 0
    ELSE LET bx == x % 2
             by == y % 2
             b == CASE f = "and" -> bx * by
                    [] f = "or" -> IF bx + by > 0 THEN 1 ELSE 0
                    [] f = "xor" -> (bx + by) % 2
         IN  b + 2 * BitOp(f, x \div 2, y \div 2, n - 1)

And16(x, y) == BitOp("and", x, y, 16)
Or16(x, y) == BitOp("or", x, y, 16)
Xor16(x, y) == BitOp("xor", x, y, 16)
And32(a, b) == [hi |-> And16(a.hi, b.hi), lo |-> And16(a.lo, b.lo)]
Or32(a, b) == [hi |-> Or16(a.hi, b.hi), lo |-> Or16(a.lo, b.lo)]
Xor32(a, b) == [hi |-> Xor16(a.hi, b.hi), lo |-> Xor16(a.lo, b.lo)]

(***************************************************************************)
(* IEEE-754 single precision, for the integer-valued floats n with         *)
(* |n| < 2^24 (they are exact): the bits of n, and n from the bits.        *)
(***************************************************************************)
FloatLimit == 16777216

RECURSIVE Log2(_)
Log2(n) == IF n <= 1 THEN 0 ELSE 1 + Log2(n \div 2)

FloatBits(n) ==
    LET a == IF n < 0 THEN -n ELSE n
        s == IF n < 0 THEN 32768 ELSE 0
        e == Log2(a)
        m == (a - 2^e) * 2^(23 - e)          \* 23-bit fraction
    IN  IF a = 0 THEN [hi |-> 0, lo |-> 0]
        ELSE [hi |-> s + (127 + e) * 128 + m \div W16, lo |-> m % W16]

\* the exponent and the 24-bit significand held in the bits
FloatExp(b) == ((b.hi % 32768) \div 128) - 127
FloatSig(b) == 8388608 + (b.hi % 128) * W16 + b.lo

\* the bits hold an integer of magnitude below 2^24
IsIntFloat(b) ==
    \/ (b.hi % 32768 = 0 /\ b.lo = 0)
    \/ /\ FloatExp(b) >= 0
       /\ FloatExp(b) <= 23
       /\ FloatSig(b) % (2^(23 - FloatExp(b))) = 0

FloatInt(b) ==
    IF b.hi % 32768 = 0 /\ b.lo = 0 THEN 0
    ELSE LET a == FloatSig(b) \div (2^(23 - FloatExp(b)))
         IN  IF b.hi >= 32768 THEN -a ELSE a

Abs(n) == IF n < 0 THEN -n ELSE n

\* a op b on floats is computed where it is exact in this representation
FloatDefined(f, a, b) ==
    /\ IsIntFloat(a)
    /\ IsIntFloat(b)
    /\ CASE f = "+" -> Abs(FloatInt(a) + FloatInt(b)) < FloatLimit
         [] f = "-" -> Abs(FloatInt(a) - FloatInt(b)) < FloatLimit
         [] f = "*" -> /\ Abs(FloatInt(a)) < 2048
                       /\ Abs(FloatInt(b)) < 2048
         [] f = "/" -> /\ FloatInt(b) # 0
                       /\ FloatInt(a) % Abs(FloatInt(b)) = 0

FloatArith(f, a, b) ==
    LET x == FloatInt(a)
        y == FloatInt(b)
    IN  CASE f = "+" -> FloatBits(x + y)
          [] f = "-" -> FloatBits(x - y)
          [] f = "*" -> FloatBits(x * y)
          [] f = "/" -> LET q == Abs(x) \div Abs(y)
                        IN  FloatBits(IF (x < 0) # (y < 0) THEN -q ELSE q)


(***************************************************************************)
(* Variable nodes.  A node is what calloc returns (all zero) until its     *)
(* creator fills it in.  lineno and the two notification flags are never   *)
(* read by the library and are left out.                                   *)
(***************************************************************************)
Obj(type, len, val) == [type |-> type, len |-> len, val |-> val]

\* the null char pointer of an identifier that is absent
NullId == ""

ZeroNode ==
    [operation |-> 0, id |-> NullId, local |-> FALSE, assigned |-> FALSE,
     lvalue |-> FALSE, bufsize |-> 0, hVar |-> VAR_INVALID,
     obj |-> Obj(VARTYPE_INVALID, 0, ZeroVal),
     left |-> NULL, right |-> NULL, pNext |-> NULL]

\* One entry of the trace: a handler call ("call", node, handler), a store
\* access ("find", the name in fn; "get" / "set", handle, value, the store's answer),
\* a statement started ("stmt", statement), a script run ("script"), or
\* ProcessVariable returning ("ret", node, return code).  A "call" entry
\* also holds the arguments handed to the handler (l, r) and what the two
\* recursive evaluations had returned by then (rightRc first, then leftRc).
Event(ev, n, fn, val, code) ==
    [ev |-> ev, n |-> n, fn |-> fn, val |-> val, rc |-> code,
     l |-> NULL, r |-> NULL, rightRc |-> "", leftRc |-> ""]

CallEvent(n, fn, l, r, rightRc, leftRc) ==
    [ev |-> "call", n |-> n, fn |-> fn, val |-> ZeroVal, rc |-> "",
     l |-> l, r |-> r, rightRc |-> rightRc, leftRc |-> leftRc]

Log(st, e) == [st EXCEPT !.trace = Append(@, e)]

Ret(st, code) == [st |-> st, rc |-> code]

TypeOf(st, p) == st.nodes[p].obj.type
ValOf(st, p) == st.nodes[p].obj.val

(***************************************************************************)
(* The external variable store.  store is a sequence of variables          *)
(* [name, obj]; a handle is an index into it.  st.env names the handles    *)
(* whose get / set the store refuses during this call, and the code it     *)
(* refuses them with.                                                      *)
(***************************************************************************)
StoreErrors == { "EIO", "EACCES" }

VAR_FindByName(st, id) ==
    IF \E h \in DOMAIN st.store : st.store[h].name = id
    THEN CHOOSE h \in DOMAIN st.store : st.store[h].name = id
    ELSE VAR_INVALID

\* VAR_Get( hVarServer, hVar, &(node->obj) )
VAR_Get(st, hVar, p) ==
    IF hVar \in st.env.getFail
    THEN Ret(Log(st, Event("get", hVar, "", ZeroVal, st.env.storeErr)), st.env.storeErr)
    ELSE LET s1 == [st EXCEPT !.nodes[p].obj = st.store[hVar].obj]
         IN  Ret(Log(s1, Event("get", hVar, "", ZeroVal, EOK)), EOK)

\* VAR_Set( hVarServer, hVar, &(node->obj) )
VAR_Set(st, hVar, p) ==
    LET v == ValOf(st, p)
    IN  IF hVar \in st.env.setFail
        THEN Ret(Log(st, Event("set", hVar, "", v, st.env.storeErr)), st.env.storeErr)
        ELSE LET s1 == [st EXCEPT !.store[hVar].obj.val = v]
             IN  Ret(Log(s1, Event("set", hVar, "", v, EOK)), EOK)

(***************************************************************************)
(* String buffers.  heap is a sequence of buffers [data, size, live]; a    *)
(* string pointer is an index into it.  data is the bytes before the NUL.  *)
(***************************************************************************)
Buffer(data, size) == [data |-> data, size |-> size, live |-> TRUE]

StrData(st, p) ==
    IF ValOf(st, p).str = NULL THEN << >> ELSE st.heap[ValOf(st, p).str].data

\* malloc( size ): the new pointer, NULL under memory exhaustion
Malloc(st, size) ==
    IF st.env.oom THEN [st |-> st, ptr |-> NULL]
    ELSE [st |-> [st EXCEPT !.heap = Append(@, Buffer(<< >>, size))],
          ptr |-> Len(st.heap) + 1]

\* realloc( ptr, size ): grows in place or moves, as the allocator decides
Realloc(st, ptr, size) ==
    IF st.env.oom THEN [st |-> st, ptr |-> NULL]
    ELSE IF st.env.moves
    THEN [st |-> [st EXCEPT !.heap =
                     Append([@ EXCEPT ![ptr].live = FALSE],
                            Buffer(st.heap[ptr].data, size))],
          ptr |-> Len(st.heap) + 1]
    ELSE [st |-> [st EXCEPT !.heap[ptr].size = size], ptr |-> ptr]

\* the node after realloc returned r
Regrown(r, p, bufsize) ==
    IF r.ptr # NULL
    THEN [r.st EXCEPT !.nodes[p].obj.val.str = r.ptr,
                      !.nodes[p].bufsize = bufsize]
    ELSE [r.st EXCEPT !.nodes[p].obj.val.str = NULL,
                      !.nodes[p].bufsize = 0]

\* the node after malloc returned m
Allocated(m, p, bufsize) ==
    IF m.ptr # NULL
    THEN Ret([m.st EXCEPT !.nodes[p].obj.val.str = m.ptr,
                          !.nodes[p].bufsize = bufsize], EOK)
    ELSE Ret([m.st EXCEPT !.nodes[p].bufsize = 0], ENOMEM)

\* check if we need to allocate a new buffer
NewBuffer(st, p, bufsize) ==
    IF ValOf(st, p).str = NULL
    THEN Allocated(Malloc(st, bufsize), p, bufsize)
    ELSE Ret(st, EOK)

\* AllocateString fitting the buffer to every request, a smaller one too
AllocateStringExact(st, p, len) ==
    IF p = NULL THEN Ret(st, EINVAL)
    ELSE IF TypeOf(st, p) # VARTYPE_STR THEN Ret(st, ENOTSUP)
    ELSE
    LET bufsize == IF len < 32 THEN 32 ELSE len + 1
    IN  NewBuffer(IF ValOf(st, p).str # NULL /\ st.nodes[p].bufsize # bufsize
                  THEN Regrown(Realloc(st, ValOf(st, p).str, bufsize), p, bufsize)
                  ELSE st,
                  p, bufsize)

AllocateString(st, p, len) ==
    IF p = NULL THEN Ret(st, EINVAL)
    ELSE IF TypeOf(st, p) # VARTYPE_STR THEN Ret(st, ENOTSUP)
    ELSE
    LET bufsize == IF len < 32 THEN 32 ELSE len + 1
    IN  \* check if we need to reallocate an existing buffer
        NewBuffer(IF ValOf(st, p).str # NULL /\ st.nodes[p].bufsize <= len
                  THEN Regrown(Realloc(st, ValOf(st, p).str, bufsize), p, bufsize)
                  ELSE st,
                  p, bufsize)

Take(s, n) == SubSeq(s, 1, IF n < Len(s) THEN n ELSE Len(s))

\* AssignString after AllocateString returned a: memcpy of src, NUL
\* termination, string attributes, then the result node
CopyString(a, pResult, pLeft, src, len) ==
    LET buf == ValOf(a.st, pLeft).str
    IN  IF a.rc # EOK THEN a
        ELSE Ret([a.st EXCEPT !.heap[buf].data = Take(src, len),
                              !.nodes[pLeft].obj.len = len,
                              !.nodes[pLeft].obj.type = VARTYPE_STR,
                              !.nodes[pResult].obj.val.str = buf,
                              !.nodes[pResult].obj.len = len,
                              !.nodes[pResult].obj.type = VARTYPE_STR,
                              !.nodes[pResult].bufsize =
                                  a.st.nodes[pLeft].bufsize], EOK)

AssignString(st, pResult, pLeft, pRight) ==
    IF pResult = NULL \/ pLeft = NULL \/ pRight = NULL THEN Ret(st, EINVAL)
    ELSE IF ~(TypeOf(st, pLeft) = VARTYPE_STR /\ TypeOf(st, pRight) = VARTYPE_STR)
    THEN Ret(st, ENOTSUP)
    ELSE CopyString(AllocateString(st, pLeft, st.nodes[pRight].obj.len),
                    pResult, pLeft, StrData(st, pRight),
                    st.nodes[pRight].obj.len)

\* ConcatString after AllocateString returned a: strcat of src, then the
\* result node
AppendString(a, pResult, pLeft, src, len) ==
    LET buf == ValOf(a.st, pLeft).str
    IN  IF a.rc # EOK THEN a
        ELSE Ret([a.st EXCEPT !.heap[buf].data = @ \o src,
                              !.nodes[pLeft].obj.len = len,
                              !.nodes[pResult].obj.len = len,
                              !.nodes[pResult].obj.type = VARTYPE_STR,
                              !.nodes[pResult].obj.val.str = buf,
                              !.nodes[pResult].bufsize =
                                  a.st.nodes[pLeft].bufsize], EOK)

\* ConcatString taking a null string for the empty one
ConcatStringNullAsEmpty(st, pResult, pLeft, pRight) ==
    IF pResult = NULL \/ pLeft = NULL \/ pRight = NULL THEN Ret(st, EINVAL)
    ELSE IF ~(TypeOf(st, pLeft) = VARTYPE_STR /\ TypeOf(st, pRight) = VARTYPE_STR)
    THEN Ret(st, ENOTSUP)
    ELSE AppendString(AllocateString(st, pLeft, st.nodes[pLeft].obj.len
                                                + st.nodes[pRight].obj.len),
                      pResult, pLeft, StrData(st, pRight),
                      st.nodes[pLeft].obj.len + st.nodes[pRight].obj.len)

ConcatString(st, pResult, pLeft, pRight) ==
    IF pResult = NULL \/ pLeft = NULL \/ pRight = NULL THEN Ret(st, EINVAL)
    ELSE IF ~(TypeOf(st, pLeft) = VARTYPE_STR /\ TypeOf(st, pRight) = VARTYPE_STR)
    THEN Ret(st, ENOTSUP)
    ELSE IF ValOf(st, pLeft).str = NULL \/ ValOf(st, pRight).str = NULL
    THEN Ret(st, ENOTSUP)
    ELSE AppendString(AllocateString(st, pLeft, st.nodes[pLeft].obj.len
                                                + st.nodes[pRight].obj.len),
                      pResult, pLeft, StrData(st, pRight),
                      st.nodes[pLeft].obj.len + st.nodes[pRight].obj.len)


(***************************************************************************)
(* The assignment operators (varassign.c).                                 *)
(***************************************************************************)
Arith16(f, x, y) ==
    CASE f = "+" -> Add16(x, y)
      [] f = "-" -> Sub16(x, y)
      [] f = "*" -> Mul16(x, y)
      [] f = "/" -> Div16(x, y)
      [] f = "and" -> And16(x, y)
      [] f = "or" -> Or16(x, y)
      [] f = "xor" -> Xor16(x, y)

Arith32(f, a, b) ==
    CASE f = "+" -> Add32(a, b)
      [] f = "-" -> Sub32(a, b)
      [] f = "*" -> Mul32(a, b)
      [] f = "/" -> Div32(a, b)
      [] f = "and" -> And32(a, b)
      [] f = "or" -> Or32(a, b)
      [] f = "xor" -> Xor32(a, b)

\* pResult->obj.val.ul = pLeft->obj.val.ul = x, and the result's type and len
SetBoth32(st, pResult, pLeft, x, type) ==
    LET s1 == [st EXCEPT !.nodes[pLeft].obj.val = SetUL(@, x)]
    IN  [s1 EXCEPT !.nodes[pResult].obj = Obj(type, 4, SetUL(@.val, x))]

\* pResult->obj.val.ui = pLeft->obj.val.ui = x, and the result's type and len
SetBoth16(st, pResult, pLeft, x) ==
    LET s1 == [st EXCEPT !.nodes[pLeft].obj.val = SetUI(@, x)]
    IN  [s1 EXCEPT !.nodes[pResult].obj =
                       Obj(VARTYPE_UINT16, 2, SetUI(@.val, x))]

\* An integer division by zero is undefined: the build either traps
\* (SIGFPE, the call never returns) or the divide instruction yields 0.
DivideByZero(st, pResult, pLeft, wide) ==
    IF st.env.divz = "trap" THEN Ret(st, SIGFPE)
    ELSE IF wide THEN Ret(SetBoth32(st, pResult, pLeft, U32(0), VARTYPE_UINT32), EOK)
    ELSE Ret(SetBoth16(st, pResult, pLeft, 0), EOK)

\* the switch( pLeft->obj.type ) of the compound assignments: left f= right
CompoundSwitch(st, pResult, pLeft, pRight, f, floats) ==
    LET type == TypeOf(st, pLeft)
        l == ValOf(st, pLeft)
        r == ValOf(st, pRight)
    IN  CASE type = VARTYPE_UINT32 ->
               IF f = "/" /\ IsZero32(UL(r))
               THEN DivideByZero(st, pResult, pLeft, TRUE)
               ELSE Ret(SetBoth32(st, pResult, pLeft,
                                  Arith32(f, UL(l), UL(r)), VARTYPE_UINT32), EOK)
          [] type = VARTYPE_UINT16 ->
               IF f = "/" /\ UI(r) = 0
               THEN DivideByZero(st, pResult, pLeft, FALSE)
               ELSE Ret(SetBoth16(st, pResult, pLeft,
                                  Arith16(f, UI(l), UI(r))), EOK)
          [] type = VARTYPE_FLOAT /\ floats ->
               IF FloatDefined(f, UL(l), UL(r))
               THEN Ret(SetBoth32(st, pResult, pLeft,
                                  FloatArith(f, UL(l), UL(r)), VARTYPE_FLOAT), EOK)
               ELSE Ret([st EXCEPT !.undef = TRUE], EOK)
          [] OTHER -> Ret(st, ENOTSUP)

\* the store write made whatever the arithmetic returned
SetSysvarUnchecked(r, pLeft) ==
    IF r.st.nodes[pLeft].operation = VA_SYSVAR
    THEN VAR_Set(r.st, r.st.nodes[pLeft].hVar, pLeft)
    ELSE r

\* the store write attempted whatever the node's operation
SetSysvarAnyNode(r, pLeft) ==
    IF r.rc # EOK THEN r
    ELSE IF r.st.nodes[pLeft].operation = VA_SYSVAR
    THEN VAR_Set(r.st, r.st.nodes[pLeft].hVar, pLeft)
    ELSE Ret(Log(r.st, Event("set", r.st.nodes[pLeft].hVar, "",
                             ValOf(r.st, pLeft), EOK)), EOK)

\* if( result == EOK ) if ( pLeft->operation == VA_SYSVAR ) VAR_Set( ... )
SetSysvar(r, pLeft) ==
    IF r.rc = EOK /\ r.st.nodes[pLeft].operation = VA_SYSVAR
    THEN VAR_Set(r.st, r.st.nodes[pLeft].hVar, pLeft)
    ELSE r

Assign(st, pResult, pLeft, pRight) ==
    IF pResult = NULL \/ pLeft = NULL \/ pRight = NULL THEN Ret(st, EINVAL)
    ELSE
    LET type == TypeOf(st, pLeft)
        r == ValOf(st, pRight)
        done ==
          CASE type = VARTYPE_UINT32 ->
                 Ret(SetBoth32(st, pResult, pLeft, UL(r), VARTYPE_UINT32), EOK)
            [] type = VARTYPE_UINT16 ->
                 Ret(SetBoth16(st, pResult, pLeft, UI(r)), EOK)
            [] type = VARTYPE_FLOAT ->
                 Ret(SetBoth32(st, pResult, pLeft, UL(r), VARTYPE_FLOAT), EOK)
            [] type = VARTYPE_STR -> AssignString(st, pResult, pLeft, pRight)
            [] OTHER -> Ret(st, ENOTSUP)
    IN  SetSysvar(done, pLeft)

PlusEquals(st, pResult, pLeft, pRight) ==
    IF pResult = NULL \/ pLeft = NULL \/ pRight = NULL THEN Ret(st, EINVAL)
    ELSE SetSysvar(IF TypeOf(st, pLeft) = VARTYPE_STR
                   THEN ConcatString(st, pResult, pLeft, pRight)
                   ELSE CompoundSwitch(st, pResult, pLeft, pRight, "+", TRUE),
                   pLeft)

MinusEquals(st, pResult, pLeft, pRight) ==
    IF pResult = NULL \/ pLeft = NULL \/ pRight = NULL THEN Ret(st, EINVAL)
    ELSE SetSysvar(CompoundSwitch(st, pResult, pLeft, pRight, "-", TRUE), pLeft)

TimesEquals(st, pResult, pLeft, pRight) ==
    IF pResult = NULL \/ pLeft = NULL \/ pRight = NULL THEN Ret(st, EINVAL)
    ELSE SetSysvar(CompoundSwitch(st, pResult, pLeft, pRight, "*", TRUE), pLeft)

DivEquals(st, pResult, pLeft, pRight) ==
    IF pResult = NULL \/ pLeft = NULL \/ pRight = NULL THEN Ret(st, EINVAL)
    ELSE SetSysvar(CompoundSwitch(st, pResult, pLeft, pRight, "/", TRUE), pLeft)

AndEquals(st, pResult, pLeft, pRight) ==
    IF pResult = NULL \/ pLeft = NULL \/ pRight = NULL THEN Ret(st, EINVAL)
    ELSE SetSysvar(CompoundSwitch(st, pResult, pLeft, pRight, "and", FALSE), pLeft)

OrEquals(st, pResult, pLeft, pRight) ==
    IF pResult = NULL \/ pLeft = NULL \/ pRight = NULL THEN Ret(st, EINVAL)
    ELSE SetSysvar(CompoundSwitch(st, pResult, pLeft, pRight, "or", FALSE), pLeft)

XorEquals(st, pResult, pLeft, pRight) ==
    IF pResult = NULL \/ pLeft = NULL \/ pRight = NULL THEN Ret(st, EINVAL)
    ELSE SetSysvar(CompoundSwitch(st, pResult, pLeft, pRight, "xor", FALSE), pLeft)

\* x++ or x-- on a uint16_t, and on a uint32_t
Step16(f, x) == IF f = "+" THEN Add16(x, 1) ELSE Sub16(x, 1)
Step32(f, a) == IF f = "+" THEN Add32(a, U32(1)) ELSE Sub32(a, U32(1))

\* pResult->obj.val.ul = pVar->obj.val.ul++ (post) or ++pVar->obj.val.ul:
\* the result node keeps its type and len
Bump32(st, pResult, pVar, old, new, post) ==
    [st EXCEPT !.nodes[pVar].obj.val = SetUL(@, new),
               !.nodes[pResult].obj.val = SetUL(@, IF post THEN old ELSE new)]

Bump16(st, pResult, pVar, old, new, post) ==
    [st EXCEPT !.nodes[pVar].obj.val = SetUI(@, new),
               !.nodes[pResult].obj.val = SetUI(@, IF post THEN old ELSE new)]

\* the switch( pVar->obj.type ) of Inc and Dec
BumpSwitch(st, pResult, pVar, f, post) ==
    CASE TypeOf(st, pVar) = VARTYPE_UINT32 ->
           Ret(Bump32(st, pResult, pVar, UL(ValOf(st, pVar)),
                      Step32(f, UL(ValOf(st, pVar))), post), EOK)
      [] TypeOf(st, pVar) = VARTYPE_UINT16 ->
           Ret(Bump16(st, pResult, pVar, UI(ValOf(st, pVar)),
                      Step16(f, UI(ValOf(st, pVar))), post), EOK)
      [] OTHER -> Ret(st, ENOTSUP)

\* Inc and Dec taking the right operand first
IncDecRightFirst(st, pResult, pLeft, pRight, f) ==
    IF pResult = NULL \/ (pLeft = NULL /\ pRight = NULL) THEN Ret(st, EINVAL)
    ELSE IF pRight # NULL
    THEN SetSysvar(BumpSwitch(st, pResult, pRight, f, FALSE), pRight)
    ELSE SetSysvar(BumpSwitch(st, pResult, pLeft, f, FALSE), pLeft)

\* the operand p stepped after the store was written, which returned r
BumpWritten(r, pResult, p, f, post) ==
    IF r.rc # EOK THEN Ret(BumpSwitch(r.st, pResult, p, f, post).st, r.rc)
    ELSE BumpSwitch(r.st, pResult, p, f, post)

\* Inc and Dec writing the system variable before they step the operand
IncDecWriteFirst(st, pResult, pLeft, pRight, f) ==
    IF pResult = NULL \/ (pLeft = NULL /\ pRight = NULL) THEN Ret(st, EINVAL)
    ELSE IF pLeft # NULL
    THEN BumpWritten(SetSysvar(Ret(st, EOK), pLeft), pResult, pLeft, f, TRUE)
    ELSE BumpWritten(SetSysvar(Ret(st, EOK), pRight), pResult, pRight, f, FALSE)

\* Inc and Dec: post on the left operand if there is one, else pre on the
\* right one; pVar is set, and a system variable written, on EOK only
IncDec(st, pResult, pLeft, pRight, f) ==
    IF pResult = NULL \/ (pLeft = NULL /\ pRight = NULL) THEN Ret(st, EINVAL)
    ELSE IF pLeft # NULL
    THEN SetSysvar(BumpSwitch(st, pResult, pLeft, f, TRUE), pLeft)
    ELSE SetSysvar(BumpSwitch(st, pResult, pRight, f, FALSE), pRight)

Inc(st, pResult, pLeft, pRight) == IncDec(st, pResult, pLeft, pRight, "+")

Dec(st, pResult, pLeft, pRight) == IncDec(st, pResult, pLeft, pRight, "-")

(***************************************************************************)
(* The comparison operators (varcompare.c).                                *)
(***************************************************************************)
\* a byte read as a signed char
SignedChar(c) == IF c >= 128 THEN c - 256 ELSE c

RECURSIVE StrcmpSigned(_, _)
\* strcmp comparing the bytes as signed char
StrcmpSigned(s, t) ==
    IF s = << >> /\ t = << >> THEN 0
    ELSE IF s = << >> THEN -1
    ELSE IF t = << >> THEN 1
    ELSE IF SignedChar(Head(s)) < SignedChar(Head(t)) THEN -1
    ELSE IF SignedChar(Head(s)) > SignedChar(Head(t)) THEN 1
    ELSE StrcmpSigned(Tail(s), Tail(t))

RECURSIVE Strcmp(_, _)
\* the sign of strcmp on the bytes before the NUL, compared as unsigned char
Strcmp(s, t) ==
    IF s = << >> /\ t = << >> THEN 0
    ELSE IF s = << >> THEN -1
    ELSE IF t = << >> THEN 1
    ELSE IF Head(s) < Head(t) THEN -1
    ELSE IF Head(s) > Head(t) THEN 1
    ELSE Strcmp(Tail(s), Tail(t))

\* x rel y on integers
Rel(rel, x, y) ==
    CASE rel = "==" -> x = y
      [] rel = ">" -> x > y
      [] rel = "<" -> x < y
      [] rel = ">=" -> x >= y
      [] rel = "<=" -> x <= y

\* a rel b on uint32_t, by halves
Rel32(rel, a, b) ==
    IF a.hi = b.hi THEN Rel(rel, a.lo, b.lo)
    ELSE rel # "==" /\ Rel(rel, a.hi, b.hi)

\* case VARTYPE_STR of each comparison function, l and r being the two
\* val.str pointers
StrRel(rel, st, l, r) ==
    CASE rel = "==" ->
           IF l = NULL /\ r = NULL THEN TRUE
           ELSE IF l = NULL \/ r = NULL THEN FALSE
           ELSE Strcmp(st.heap[l].data, st.heap[r].data) = 0
      [] rel = ">" ->
           IF l # NULL /\ r # NULL
           THEN Strcmp(st.heap[l].data, st.heap[r].data) > 0
           ELSE l # NULL /\ r = NULL
      [] rel = "<" ->
           IF l # NULL /\ r # NULL
           THEN Strcmp(st.heap[l].data, st.heap[r].data) < 0
           ELSE l = NULL /\ r # NULL
      [] rel = ">=" ->
           IF l = NULL /\ r = NULL THEN TRUE
           ELSE IF l # NULL /\ r # NULL
           THEN Strcmp(st.heap[l].data, st.heap[r].data) >= 0
           ELSE l # NULL /\ r = NULL
      [] rel = "<=" ->
           IF l = NULL /\ r = NULL THEN TRUE
           ELSE IF l # NULL /\ r # NULL
           THEN Strcmp(st.heap[l].data, st.heap[r].data) <= 0
           ELSE l = NULL /\ r # NULL

\* pResult->obj.val.ui = val, a bool; the result is a uint16_t
SetBool(st, pResult, val) ==
    Ret([st EXCEPT !.nodes[pResult].obj =
                      Obj(VARTYPE_UINT16, 2, SetUI(@.val, IF val THEN 1 ELSE 0))],
        EOK)

\* the body the comparison functions share: switch( pLeft->obj.type )
Compare(st, pResult, pLeft, pRight, rel) ==
    IF pResult = NULL \/ pLeft = NULL \/ pRight = NULL THEN Ret(st, EINVAL)
    ELSE CASE TypeOf(st, pLeft) = VARTYPE_UINT32 ->
                SetBool(st, pResult,
                        Rel32(rel, UL(ValOf(st, pLeft)), UL(ValOf(st, pRight))))
           [] TypeOf(st, pLeft) = VARTYPE_UINT16 ->
                SetBool(st, pResult,
                        Rel(rel, UI(ValOf(st, pLeft)), UI(ValOf(st, pRight))))
           [] TypeOf(st, pLeft) = VARTYPE_FLOAT ->
                IF /\ IsIntFloat(UL(ValOf(st, pLeft)))
                   /\ IsIntFloat(UL(ValOf(st, pRight)))
                THEN SetBool(st, pResult,
                             Rel(rel, FloatInt(UL(ValOf(st, pLeft))),
                                 FloatInt(UL(ValOf(st, pRight)))))
                ELSE Ret([st EXCEPT !.undef = TRUE], EOK)
           [] TypeOf(st, pLeft) = VARTYPE_STR ->
                SetBool(st, pResult,
                        StrRel(rel, st, ValOf(st, pLeft).str,
                               ValOf(st, pRight).str))
           [] OTHER -> Ret(st, ENOTSUP)

Equals(st, pResult, pLeft, pRight) ==
    Compare(st, pResult, pLeft, pRight, "==")

\* result = Equals( ... ); if( pResult == EOK ) compares the pointer with
\* 0.  With a result node the test fails and the result of Equals stands.
\* Without one, Equals returned EINVAL and the discarded expression
\* pResult->obj.val.ui == true ? false : true reads through the null
\* pointer: the build traps, or drops the read.
NotEquals(st, pResult, pLeft, pRight) ==
    IF pResult # NULL THEN Equals(st, pResult, pLeft, pRight)
    ELSE IF st.env.deref = "trap" THEN Ret(st, SIGSEGV)
    ELSE Ret(st, EINVAL)

GreaterThan(st, pResult, pLeft, pRight) ==
    Compare(st, pResult, pLeft, pRight, ">")

LessThan(st, pResult, pLeft, pRight) ==
    Compare(st, pResult, pLeft, pRight, "<")

GreaterThanOrEqual(st, pResult, pLeft, pRight) ==
    Compare(st, pResult, pLeft, pRight, ">=")

LessThanOrEqual(st, pResult, pLeft, pRight) ==
    Compare(st, pResult, pLeft, pRight, "<=")

(***************************************************************************)
(* The arithmetic and bitwise operators (varmath.c, varbitwise.c): the     *)
(* result node alone is written.  A shift by the width of the promoted     *)
(* left operand or more (32 in both cases: a uint16_t is shifted as an     *)
(* int) is undefined: the build either uses the count modulo 32 or         *)
(* shifts every bit out.                                                   *)
(***************************************************************************)
\* 2^n as a uint32_t, n < 32
Pow2(n) == IF n < 16 THEN [hi |-> 0, lo |-> 2^n] ELSE [hi |-> 2^(n - 16), lo |-> 0]

\* n is the count the shift instruction uses: 0 .. 31, or 32 for "all out"
Shl32(a, n) == IF n >= 32 THEN U32(0) ELSE Mul32(a, Pow2(n))
Shr32(a, n) ==
    IF n >= 32 THEN U32(0)
    ELSE IF n >= 16 THEN [hi |-> 0, lo |-> a.hi \div (2^(n - 16))]
    ELSE [hi |-> a.hi \div (2^n),
          lo |-> (a.lo \div (2^n) + (a.hi % (2^n)) * (2^(16 - n))) % W16]
Shl16(x, n) == IF n >= 16 THEN 0 ELSE (x * (2^n)) % W16
Shr16(x, n) == IF n >= 16 THEN 0 ELSE x \div (2^n)

\* the count used for a shift by the uint32_t [hi, lo]
Count(st, hi, lo) ==
    IF hi = 0 /\ lo < 32 THEN lo
    ELSE IF st.env.shift = "mask" THEN lo % 32
    ELSE 32

Shifts == { "<<", ">>" }

Bits16(st, f, x, y) ==
    CASE f = "<<" -> Shl16(x, Count(st, 0, y))
      [] f = ">>" -> Shr16(x, Count(st, 0, y))
      [] OTHER -> Arith16(f, x, y)

Bits32(st, f, a, b) ==
    CASE f = "<<" -> Shl32(a, Count(st, b.hi, b.lo))
      [] f = ">>" -> Shr32(a, Count(st, b.hi, b.lo))
      [] OTHER -> Arith32(f, a, b)

\* pResult->obj.val.ul = x, and the result's type and len
SetResult32(st, pResult, x, type) ==
    [st EXCEPT !.nodes[pResult].obj = Obj(type, 4, SetUL(@.val, x))]

\* pResult->obj.val.ui = x, and the result's type and len
SetResult16(st, pResult, x) ==
    [st EXCEPT !.nodes[pResult].obj = Obj(VARTYPE_UINT16, 2, SetUI(@.val, x))]

\* AddString after AllocateString returned a: the two strcpy and the length
JoinStrings(a, pResult, data, len) ==
    IF a.rc # EOK THEN a
    ELSE Ret([a.st EXCEPT !.heap[ValOf(a.st, pResult).str].data = data,
                          !.nodes[pResult].obj.len = len], EOK)

AddString(st, pResult, pLeft, pRight) ==
    IF pResult = NULL \/ pLeft = NULL \/ pRight = NULL THEN Ret(st, EINVAL)
    ELSE IF ~(TypeOf(st, pLeft) = VARTYPE_STR /\ TypeOf(st, pRight) = VARTYPE_STR)
    THEN Ret(st, ENOTSUP)
    ELSE IF ValOf(st, pLeft).str = NULL \/ ValOf(st, pRight).str = NULL
    THEN Ret(st, ENOTSUP)
    ELSE JoinStrings(AllocateString([st EXCEPT !.nodes[pResult].obj.type = VARTYPE_STR],
                                    pResult,
                                    st.nodes[pLeft].obj.len + st.nodes[pRight].obj.len),
                     pResult, StrData(st, pLeft) \o StrData(st, pRight),
                     st.nodes[pLeft].obj.len + st.nodes[pRight].obj.len)

\* the float case of Multiply, Add and Sub
BinaryFloat(st, pResult, f, a, b) ==
    IF FloatDefined(f, a, b)
    THEN Ret(SetResult32(st, pResult, FloatArith(f, a, b), VARTYPE_FLOAT), EOK)
    ELSE Ret([st EXCEPT !.undef = TRUE], EOK)

\* the switch( pLeft->obj.type ) of the binary operators: left f right
BinarySwitch(st, pResult, pLeft, pRight, f, floats, type, l, r) ==
    CASE type = VARTYPE_UINT32 ->
           Ret(SetResult32(st, pResult, Bits32(st, f, UL(l), UL(r)),
                           VARTYPE_UINT32), EOK)
      [] type = VARTYPE_UINT16 ->
           Ret(SetResult16(st, pResult, Bits16(st, f, UI(l), UI(r))), EOK)
      [] type = VARTYPE_FLOAT /\ floats ->
           BinaryFloat(st, pResult, f, UL(l), UL(r))
      [] type = VARTYPE_STR /\ f = "+" -> AddString(st, pResult, pLeft, pRight)
      [] OTHER -> Ret(st, ENOTSUP)

Binary(st, pResult, pLeft, pRight, f, floats) ==
    IF pResult = NULL \/ pLeft = NULL \/ pRight = NULL THEN Ret(st, EINVAL)
    ELSE BinarySwitch(st, pResult, pLeft, pRight, f, floats,
                      TypeOf(st, pLeft), ValOf(st, pLeft), ValOf(st, pRight))

Multiply(st, pResult, pLeft, pRight) == Binary(st, pResult, pLeft, pRight, "*", TRUE)

Add(st, pResult, pLeft, pRight) == Binary(st, pResult, pLeft, pRight, "+", TRUE)

Sub(st, pResult, pLeft, pRight) == Binary(st, pResult, pLeft, pRight, "-", TRUE)

Band(st, pResult, pLeft, pRight) == Binary(st, pResult, pLeft, pRight, "and", FALSE)

Bor(st, pResult, pLeft, pRight) == Binary(st, pResult, pLeft, pRight, "or", FALSE)

Xor(st, pResult, pLeft, pRight) == Binary(st, pResult, pLeft, pRight, "xor", FALSE)

LShift(st, pResult, pLeft, pRight) == Binary(st, pResult, pLeft, pRight, "<<", FALSE)

RShift(st, pResult, pLeft, pRight) == Binary(st, pResult, pLeft, pRight, ">>", FALSE)

(***************************************************************************)
(* The logical operators (varboolean.c).                                   *)
(***************************************************************************)
\* left && right, left || right
Holds(f, x, y) == IF f = "&&" THEN x /\ y ELSE x \/ y

\* And / Or taking an operand of any type as true or false
LogicalAnyType(st, pResult, f, type, l, r) ==
    SetBool(st, pResult, Holds(f, ~IsZero32(UL(l)), ~IsZero32(UL(r))))

\* the switch( pLeft->obj.type ) of And and Or, and the result node
Logical(st, pResult, f, type, l, r) ==
    CASE type = VARTYPE_UINT32 ->
           SetBool(st, pResult, Holds(f, ~IsZero32(UL(l)), ~IsZero32(UL(r))))
      [] type = VARTYPE_UINT16 ->
           SetBool(st, pResult, Holds(f, UI(l) # 0, UI(r) # 0))
      [] OTHER -> Ret(st, ENOTSUP)

And(st, pResult, pLeft, pRight) ==
    IF pResult = NULL \/ pLeft = NULL \/ pRight = NULL THEN Ret(st, EINVAL)
    ELSE Logical(st, pResult, "&&",
                 TypeOf(st, pLeft), ValOf(st, pLeft), ValOf(st, pRight))

Or(st, pResult, pLeft, pRight) ==
    IF pResult = NULL \/ pLeft = NULL \/ pRight = NULL THEN Ret(st, EINVAL)
    ELSE Logical(st, pResult, "||",
                 TypeOf(st, pLeft), ValOf(st, pLeft), ValOf(st, pRight))

(***************************************************************************)
(* The casts (vartypecast.c).  A string is its bytes; atoi, atol and atof  *)
(* read it as the C library does, and snprintf writes the decimal digits.  *)
(* The conversions between floats and integers are computed where they     *)
(* are exact in this representation.                                       *)
(***************************************************************************)
IsSpace(c) == c \in { 9, 10, 11, 12, 13, 32 }
IsDigit(c) == c \in 48 .. 57

RECURSIVE DigitsValue(_, _)
\* the value of the digits s starts with, after acc
DigitsValue(s, acc) ==
    IF s = << >> \/ ~IsDigit(Head(s)) THEN acc
    ELSE DigitsValue(Tail(s), acc * 10 + Head(s) - 48)

RECURSIVE Atoi(_)
Atoi(s) ==
    IF s = << >> THEN 0
    ELSE IF IsSpace(Head(s)) THEN Atoi(Tail(s))
    ELSE IF Head(s) = 45 THEN -DigitsValue(Tail(s), 0)
    ELSE IF Head(s) = 43 THEN DigitsValue(Tail(s), 0)
    ELSE DigitsValue(s, 0)

\* atof( s ) is an integer this model computes: s is digits only, or does
\* not start like a number at all
AtofExact(s) ==
    \/ \A i \in 1 .. Len(s) : IsDigit(s[i])
    \/ ~(IsDigit(s[1]) \/ IsSpace(s[1]) \/ s[1] \in { 43, 45, 46, 73, 105, 78, 110 })

Atof(s) == IF s # << >> /\ IsDigit(s[1]) THEN DigitsValue(s, 0) ELSE 0

\* the int n as a uint32_t, and the uint32_t a as an int
ToU32(n) == IF n >= 0 THEN U32(n) ELSE Sub32(U32(0), U32(-n))
Signed(a) == IF a.hi >= 32768 THEN (a.hi - W16) * W16 + a.lo ELSE a.hi * W16 + a.lo

RECURSIVE Digits(_)
Digits(n) == IF n < 10 THEN << 48 + n >> ELSE Digits(n \div 10) \o << 48 + (n % 10) >>

\* what "%d" prints of the int n, and "%f" of the integer-valued float
Decimal(n) == IF n < 0 THEN << 45 >> \o Digits(-n) ELSE Digits(n)
Fixed(n) == Decimal(n) \o << 46, 48, 48, 48, 48, 48, 48 >>

FourTypes == { VARTYPE_UINT16, VARTYPE_UINT32, VARTYPE_FLOAT, VARTYPE_STR }

\* the source is one this model converts to an integer exactly
IntDefined(type, v, low, high) ==
    type = VARTYPE_FLOAT =>
       /\ IsIntFloat(UL(v))
       /\ FloatInt(UL(v)) >= low
       /\ FloatInt(UL(v)) <= high

\* (int) or (short) of the source, as a uint32_t
IntOf(st, type, v) ==
    CASE type = VARTYPE_UINT32 -> UL(v)
      [] type = VARTYPE_UINT16 -> U32(UI(v))
      [] type = VARTYPE_FLOAT -> ToU32(FloatInt(UL(v)))
      [] type = VARTYPE_STR ->
           IF v.str = NULL THEN U32(0) ELSE ToU32(Atoi(st.heap[v.str].data))

\* ToInt and ToShort with (short) saturating at 65535
CastIntSaturating(st, pResult, type, v, short) ==
    IF ~short THEN Ret(SetResult32(st, pResult, IntOf(st, type, v), VARTYPE_UINT32), EOK)
    ELSE IF IntOf(st, type, v).hi # 0 THEN Ret(SetResult16(st, pResult, W16 - 1), EOK)
    ELSE Ret(SetResult16(st, pResult, IntOf(st, type, v).lo), EOK)

\* the switch of ToInt and ToShort on a source of one of the four types
CastInt(st, pResult, type, v, short) ==
    IF ~IntDefined(type, v, IF short THEN -32768 ELSE -FloatLimit,
                   IF short THEN 32767 ELSE FloatLimit)
    THEN Ret([st EXCEPT !.undef = TRUE], EOK)
    ELSE IF short THEN Ret(SetResult16(st, pResult, IntOf(st, type, v).lo), EOK)
    ELSE Ret(SetResult32(st, pResult, IntOf(st, type, v), VARTYPE_UINT32), EOK)

ToInt(st, pResult, pLeft, pRight) ==
    IF pResult = NULL \/ pLeft = NULL THEN Ret(st, EINVAL)
    ELSE IF TypeOf(st, pLeft) \notin FourTypes THEN Ret(st, ENOTSUP)
    ELSE CastInt(st, pResult, TypeOf(st, pLeft), ValOf(st, pLeft), FALSE)

ToShort(st, pResult, pLeft, pRight) ==
    IF pResult = NULL \/ pLeft = NULL THEN Ret(st, EINVAL)
    ELSE IF TypeOf(st, pLeft) \notin FourTypes THEN Ret(st, ENOTSUP)
    ELSE CastInt(st, pResult, TypeOf(st, pLeft), ValOf(st, pLeft), TRUE)

\* the source is one this model converts to a float exactly
FloatOfDefined(st, type, v) ==
    CASE type = VARTYPE_UINT32 -> v.hi < 256
      [] type = VARTYPE_STR -> v.str = NULL \/ AtofExact(st.heap[v.str].data)
      [] OTHER -> TRUE

\* (float) of the source, as the bits of the float
FloatOf(st, type, v) ==
    CASE type = VARTYPE_UINT32 -> FloatBits(v.hi * W16 + v.lo)
      [] type = VARTYPE_UINT16 -> FloatBits(UI(v))
      [] type = VARTYPE_FLOAT -> UL(v)
      [] type = VARTYPE_STR ->
           IF v.str = NULL THEN FloatBits(0) ELSE FloatBits(Atof(st.heap[v.str].data))

ToFloat(st, pResult, pLeft, pRight) ==
    IF pResult = NULL \/ pLeft = NULL THEN Ret(st, EINVAL)
    ELSE IF TypeOf(st, pLeft) \notin FourTypes THEN Ret(st, ENOTSUP)
    ELSE IF ~FloatOfDefined(st, TypeOf(st, pLeft), ValOf(st, pLeft))
    THEN Ret([st EXCEPT !.undef = TRUE], EOK)
    ELSE Ret(SetResult32(st, pResult,
                         FloatOf(st, TypeOf(st, pLeft), ValOf(st, pLeft)),
                         VARTYPE_FLOAT), EOK)

\* what snprintf writes for a source of a numeric type with the default
\* format ("%d" takes the uint32_t as an int)
Printed(type, v) ==
    CASE type = VARTYPE_UINT32 -> Decimal(Signed(UL(v)))
      [] type = VARTYPE_UINT16 -> Decimal(UI(v))
      [] type = VARTYPE_FLOAT -> Fixed(FloatInt(UL(v)))

\* "%d"
DefaultFormat == << 37, 100 >>

\* fmtspec: the right operand's string if it is one, else what the
\* variable, never written, holds
Fmtspec(st, pRight) ==
    IF pRight # NULL /\ TypeOf(st, pRight) = VARTYPE_STR
    THEN IF ValOf(st, pRight).str = NULL THEN "null"
         ELSE IF StrData(st, pRight) = DefaultFormat THEN "null"
         ELSE "other"
    ELSE st.env.fmtspec

\* snprintf and strlen on the result buffer, a.st being the machine after
\* AllocateString returned a.rc
Format(a, pResult, type, v, fmtspec) ==
    IF fmtspec = "wild" THEN Ret(a.st, SIGSEGV)
    ELSE IF ValOf(a.st, pResult).str = NULL THEN Ret(a.st, SIGSEGV)
    ELSE IF fmtspec = "other" \/ (type = VARTYPE_FLOAT /\ ~IsIntFloat(UL(v)))
    THEN Ret([a.st EXCEPT !.undef = TRUE], a.rc)
    ELSE Ret([a.st EXCEPT !.heap[ValOf(a.st, pResult).str].data = Printed(type, v),
                          !.nodes[pResult].obj.len = Len(Printed(type, v))], a.rc)

\* the switch of ToString after AllocateString returned a
StringSwitch(a, pResult, pLeft, pRight) ==
    IF TypeOf(a.st, pLeft) \in { VARTYPE_UINT32, VARTYPE_UINT16, VARTYPE_FLOAT }
    THEN Format(a, pResult, TypeOf(a.st, pLeft), ValOf(a.st, pLeft),
                Fmtspec(a.st, pRight))
    ELSE Ret(a.st, ENOTSUP)

\* ToString (the name is taken by the TLC module)
CastToString(st, pResult, pLeft, pRight) ==
    IF pResult = NULL \/ pLeft = NULL THEN Ret(st, EINVAL)
    ELSE StringSwitch(AllocateString([st EXCEPT !.nodes[pResult].obj.type = VARTYPE_STR],
                                     pResult, 64),
                      pResult, pLeft, pRight)

(***************************************************************************)
(* The handlers of varaction.c itself.                                     *)
(***************************************************************************)
\* GetVar reading the store for an l-value too
GetVarAlways(st, pVariable, pLeft, pRight) ==
    IF /\ pVariable # NULL
       /\ st.nodes[pVariable].hVar # VAR_INVALID
       /\ st.nodes[pVariable].operation = VA_SYSVAR
    THEN VAR_Get(st, st.nodes[pVariable].hVar, pVariable)
    ELSE Ret(st, EINVAL)

GetVar(st, pVariable, pLeft, pRight) ==
    IF /\ pVariable # NULL
       /\ st.nodes[pVariable].hVar # VAR_INVALID
       /\ st.nodes[pVariable].operation = VA_SYSVAR
    THEN IF st.nodes[pVariable].lvalue = FALSE
         THEN VAR_Get(st, st.nodes[pVariable].hVar, pVariable)
         ELSE Ret(st, EOK)   \* no need to get an l-value sysvar
    ELSE Ret(st, EINVAL)

\* Unsupported reporting success
UnsupportedSucceeds(st, pVariable, pLeft, pRight) ==
    IF pVariable # NULL THEN Ret(st, EOK) ELSE Ret(st, EINVAL)

Unsupported(st, pVariable, pLeft, pRight) ==
    IF pVariable # NULL THEN Ret(st, ENOTSUP) ELSE Ret(st, EINVAL)

NOP(st, pVariable, pLeft, pRight) == Ret(st, EOK)

(***************************************************************************)
(* The timers (vartimer.c).  timers[id] holds the handle timer_create      *)
(* wrote for id, 0 from the static initialiser.  os_timers is the set of   *)
(* timers that exist in the operating system, each [h, id, its]: its       *)
(* handle, the id its signal carries (sigev_value) and its setting.        *)
(* timer_t is opaque: no value of it is reserved, and Linux numbers the    *)
(* timers of a process from 0.  The trace takes an entry for each          *)
(* timer_create (n the handle written, l the id) and each timer_delete     *)
(* (n the handle), with what the call returned.                            *)
(***************************************************************************)
MAX_TIMERS == 255

EAGAIN == "EAGAIN"

Timespec(sec, nsec) == [tv_sec |-> sec, tv_nsec |-> nsec]

Disarmed == [it_interval |-> Timespec(0, 0), it_value |-> Timespec(0, 0)]

\* timer_delete( timerID ): 0, or -1 with errno
timer_delete(st, timerID) ==
    IF \E t \in st.os_timers : t.h = timerID
    THEN Ret(Log([st EXCEPT !.os_timers = { t \in @ : t.h # timerID }],
                 Event("timer_delete", timerID, "", ZeroVal, EOK)), EOK)
    ELSE Ret(Log(st, Event("timer_delete", timerID, "", ZeroVal, EINVAL)),
             EINVAL)

\* timer_create( CLOCK_REALTIME, &te, &timers[id] ), te carrying id
timer_create(st, id) ==
    IF st.env.timerFail
    THEN Log(st, [Event("timer_create", NULL, "", ZeroVal, EAGAIN)
                     EXCEPT !.l = id])
    ELSE IF \E t \in st.os_timers : t.h = st.env.handle
    THEN [st EXCEPT !.undef = TRUE]    \* a handle in use is not handed out
    ELSE Log([st EXCEPT !.timers[id] = st.env.handle,
                        !.os_timers = @ \cup { [h |-> st.env.handle, id |-> id,
                                                its |-> Disarmed] }],
             [Event("timer_create", st.env.handle, "", ZeroVal, EOK)
                 EXCEPT !.l = id])

\* timer_settime( timerID, 0, &its, NULL )
timer_settime(st, timerID, its) ==
    [st EXCEPT !.os_timers =
                  { IF t.h = timerID THEN [t EXCEPT !.its = its] ELSE t :
                       t \in @ }]

\* pResult->obj.val.ui = ( result == EOK ) ? 1 : 0, as a uint16
TimerResult(st, pResult, result) ==
    Ret(SetResult16(st, pResult, IF result = EOK THEN 1 ELSE 0), result)

VADeleteTimer(st, pResult, pLeft, pRight) ==
    IF pResult # NULL /\ pLeft # NULL
    THEN IF UI(ValOf(st, pLeft)) > 0 /\ UI(ValOf(st, pLeft)) < MAX_TIMERS
         THEN \* result = EOK if timer_delete returned 0, errno otherwise
              TimerResult(timer_delete(st, st.timers[UI(ValOf(st, pLeft))]).st,
                          pResult,
                          timer_delete(st, st.timers[UI(ValOf(st, pLeft))]).rc)
         ELSE TimerResult(st, pResult, ENOENT)
    ELSE Ret(st, EINVAL)

\* its of timeoutms = pRight->obj.val.ul milliseconds, repeating or not
Its(timeoutms, tick) ==
    [it_interval |-> IF tick
                     THEN Timespec(timeoutms \div 1000,
                                   (timeoutms % 1000) * 1000000)
                     ELSE Timespec(0, 0),
     it_value |-> Timespec(timeoutms \div 1000, (timeoutms % 1000) * 1000000)]

\* timer_settime( timers[id], ... ) once timer_create has returned in st
SetTime(st, id, timeoutms, tick) ==
    IF timeoutms.hi # 0 THEN [st EXCEPT !.undef = TRUE]
    ELSE timer_settime(st, st.timers[id], Its(timeoutms.lo, tick))

\* the slot of id cleared of the timer it holds, whatever VADeleteTimer says
Replaced(st, pResult, pLeft, pRight, id) ==
    IF st.timers[id] # 0
    THEN VADeleteTimer(st, pResult, pLeft, pRight).st
    ELSE st

\* VACreateTimer and VACreateTick taking id 0 for a timer id
CreateTimerFromZero(st, pResult, pLeft, pRight, tick) ==
    IF pResult # NULL /\ pLeft # NULL /\ pRight # NULL
    THEN IF UI(ValOf(st, pLeft)) < MAX_TIMERS
         THEN TimerResult(
                 SetTime(timer_create(Replaced(st, pResult, pLeft, pRight,
                                               UI(ValOf(st, pLeft))),
                                      UI(ValOf(st, pLeft))),
                         UI(ValOf(st, pLeft)), UL(ValOf(st, pRight)), tick),
                 pResult, EOK)
         ELSE TimerResult(st, pResult, ENOENT)
    ELSE Ret(st, EINVAL)

\* the body VACreateTimer and VACreateTick share: they differ in it_interval
CreateTimer(st, pResult, pLeft, pRight, tick) ==
    IF pResult # NULL /\ pLeft # NULL /\ pRight # NULL
    THEN IF UI(ValOf(st, pLeft)) > 0 /\ UI(ValOf(st, pLeft)) < MAX_TIMERS
         THEN TimerResult(
                 SetTime(timer_create(Replaced(st, pResult, pLeft, pRight,
                                               UI(ValOf(st, pLeft))),
                                      UI(ValOf(st, pLeft))),
                         UI(ValOf(st, pLeft)), UL(ValOf(st, pRight)), tick),
                 pResult, EOK)
         ELSE TimerResult(st, pResult, ENOENT)
    ELSE Ret(st, EINVAL)

VACreateTimer(st, pResult, pLeft, pRight) ==
    CreateTimer(st, pResult, pLeft, pRight, FALSE)

VACreateTick(st, pResult, pLeft, pRight) ==
    CreateTimer(st, pResult, pLeft, pRight, TRUE)

\* VAGetActiveTimer consuming the id it reports
VAGetActiveTimerOnce(st, pResult, pLeft, pRight) ==
    IF pResult # NULL
    THEN Ret([SetResult16(st, pResult, st.activeTimer)
                 EXCEPT !.activeTimer = 0], EOK)
    ELSE Ret(st, EINVAL)

VAGetActiveTimer(st, pResult, pLeft, pRight) ==
    IF pResult # NULL
    THEN Ret(SetResult16(st, pResult, st.activeTimer), EOK)
    ELSE Ret(st, EINVAL)

\* void VASetActiveTimer( uint16_t id )
VASetActiveTimer(st, id) == [st EXCEPT !.activeTimer = id % W16]

\* void SetTimer( int id ) (vartypecast.c)
SetTimer(st, id) == VASetActiveTimer(st, id)


(***************************************************************************)
(* The operation map.  A handler is kept by its name; the static array is  *)
(* zero-initialised, so every entry is the null function pointer until     *)
(* InitVarAction runs.                                                     *)
(***************************************************************************)
NullFn == ""

OpCodes == 0 .. (VA_OP_MAX - 1)

EmptyMap == [i \in OpCodes |-> NullFn]

\* the map InitVarAction leaves
InitVarActionMap ==
    [i \in OpCodes |->
        CASE i = VA_ASSIGN -> "Assign"
          [] i = VA_MUL -> "Multiply"
          [] i = VA_DIV -> "Divide"
          [] i = VA_ADD -> "Add"
          [] i = VA_SUB -> "Sub"
          [] i = VA_BAND -> "Band"
          [] i = VA_BOR -> "Bor"
          [] i = VA_XOR -> "Xor"
          [] i = VA_INC -> "Inc"
          [] i = VA_DEC -> "Dec"
          [] i = VA_LSHIFT -> "LShift"
          [] i = VA_RSHIFT -> "RShift"
          [] i = VA_AND -> "And"
          [] i = VA_OR -> "Or"
          [] i = VA_NOT -> "Not"
          [] i = VA_EQUALS -> "Equals"
          [] i = VA_NOTEQUALS -> "NotEquals"
          [] i = VA_GT -> "GreaterThan"
          [] i = VA_LT -> "LessThan"
          [] i = VA_GTE -> "GreaterThanOrEqual"
          [] i = VA_LTE -> "LessThanOrEqual"
          [] i = VA_AND_EQUALS -> "AndEquals"
          [] i = VA_OR_EQUALS -> "AndEquals"
          [] i = VA_XOR_EQUALS -> "XorEquals"
          [] i = VA_DIV_EQUALS -> "DivEquals"
          [] i = VA_TIMES_EQUALS -> "TimesEquals"
          [] i = VA_PLUS_EQUALS -> "PlusEquals"
          [] i = VA_MINUS_EQUALS -> "MinusEquals"
          [] i = VA_SYSVAR -> "GetVar"
          [] i = VA_TOFLOAT -> "ToFloat"
          [] i = VA_TOSTRING -> "ToString"
          [] i = VA_TOSHORT -> "ToShort"
          [] i = VA_TOINT -> "ToInt"
          [] i = VA_NUM -> "NOP"
          [] i = VA_FLOATNUM -> "NOP"
          [] i = VA_LOCALVAR -> "NOP"
          [] i = VA_STRING -> "NOP"
          [] i = VA_CREATE_TICK -> "VACreateTick"
          [] i = VA_CREATE_TIMER -> "VACreateTimer"
          [] i = VA_DELETE_TIMER -> "VADeleteTimer"
          [] i = VA_ACTIVE_TIMER -> "VAGetActiveTimer"
          [] i = VA_TIMER -> "NOP"
          [] OTHER -> "Unsupported"]

\* result = fn( hVarServer, pVariable, left, right )
CallHandler(fn, st, pVariable, pLeft, pRight) ==
    CASE fn = "Assign" -> Assign(st, pVariable, pLeft, pRight)
      [] fn = "PlusEquals" -> PlusEquals(st, pVariable, pLeft, pRight)
      [] fn = "MinusEquals" -> MinusEquals(st, pVariable, pLeft, pRight)
      [] fn = "TimesEquals" -> TimesEquals(st, pVariable, pLeft, pRight)
      [] fn = "DivEquals" -> DivEquals(st, pVariable, pLeft, pRight)
      [] fn = "AndEquals" -> AndEquals(st, pVariable, pLeft, pRight)
      [] fn = "OrEquals" -> OrEquals(st, pVariable, pLeft, pRight)
      [] fn = "XorEquals" -> XorEquals(st, pVariable, pLeft, pRight)
      [] fn = "Inc" -> Inc(st, pVariable, pLeft, pRight)
      [] fn = "Dec" -> Dec(st, pVariable, pLeft, pRight)
      [] fn = "Equals" -> Equals(st, pVariable, pLeft, pRight)
      [] fn = "NotEquals" -> NotEquals(st, pVariable, pLeft, pRight)
      [] fn = "GreaterThan" -> GreaterThan(st, pVariable, pLeft, pRight)
      [] fn = "LessThan" -> LessThan(st, pVariable, pLeft, pRight)
      [] fn = "GreaterThanOrEqual" ->
             GreaterThanOrEqual(st, pVariable, pLeft, pRight)
      [] fn = "LessThanOrEqual" -> LessThanOrEqual(st, pVariable, pLeft, pRight)
      [] fn = "Multiply" -> Multiply(st, pVariable, pLeft, pRight)
      [] fn = "Add" -> Add(st, pVariable, pLeft, pRight)
      [] fn = "Sub" -> Sub(st, pVariable, pLeft, pRight)
      [] fn = "Band" -> Band(st, pVariable, pLeft, pRight)
      [] fn = "Bor" -> Bor(st, pVariable, pLeft, pRight)
      [] fn = "Xor" -> Xor(st, pVariable, pLeft, pRight)
      [] fn = "LShift" -> LShift(st, pVariable, pLeft, pRight)
      [] fn = "RShift" -> RShift(st, pVariable, pLeft, pRight)
      [] fn = "And" -> And(st, pVariable, pLeft, pRight)
      [] fn = "Or" -> Or(st, pVariable, pLeft, pRight)
      [] fn = "ToFloat" -> ToFloat(st, pVariable, pLeft, pRight)
      [] fn = "ToInt" -> ToInt(st, pVariable, pLeft, pRight)
      [] fn = "ToShort" -> ToShort(st, pVariable, pLeft, pRight)
      [] fn = "ToString" -> CastToString(st, pVariable, pLeft, pRight)
      [] fn = "GetVar" -> GetVar(st, pVariable, pLeft, pRight)
      [] fn = "NOP" -> NOP(st, pVariable, pLeft, pRight)
      [] fn = "VACreateTick" -> VACreateTick(st, pVariable, pLeft, pRight)
      [] fn = "VACreateTimer" -> VACreateTimer(st, pVariable, pLeft, pRight)
      [] fn = "VADeleteTimer" -> VADeleteTimer(st, pVariable, pLeft, pRight)
      [] fn = "VAGetActiveTimer" ->
             VAGetActiveTimer(st, pVariable, pLeft, pRight)
      [] fn = "Unsupported" -> Unsupported(st, pVariable, pLeft, pRight)

(***************************************************************************)
(* The tree evaluator (varaction.c).  hVarServer is a valid handle         *)
(* throughout.  A call that ends with SIGFPE never returned: its callers   *)
(* do nothing more.                                                        *)
(***************************************************************************)
RECURSIVE ProcessVariable(_, _)
RECURSIVE ProcessIF(_, _, _)
RECURSIVE ProcessExpr(_, _)
RECURSIVE ProcessCompoundStatement(_, _)
RECURSIVE ProcessStatement(_, _)
RECURSIVE StatementLoop(_, _, _)

ProcessScript(st, script) ==
    IF script # NULL
    THEN Ret(Log(st, Event("script", script, "", ZeroVal, EOK)), EOK)
    ELSE Ret(st, EINVAL)

ProcessStatement(st, pStatement) ==
    IF pStatement = NULL THEN Ret(st, EINVAL)
    ELSE IF st.stmts[pStatement].pVariable # NULL
    THEN ProcessVariable(Log(st, Event("stmt", pStatement, "", ZeroVal, EOK)),
                         st.stmts[pStatement].pVariable)
    ELSE IF st.stmts[pStatement].script # NULL
    THEN ProcessScript(Log(st, Event("stmt", pStatement, "", ZeroVal, EOK)),
                       st.stmts[pStatement].script)
    ELSE Ret(Log(st, Event("stmt", pStatement, "", ZeroVal, EOK)), ENOTSUP)

\* the rest of a turn of the loop keeping the first failing code, not the last
LoopTurnFirst(r, pStatement, result) ==
    IF r.rc \in Signals THEN r
    ELSE StatementLoop(Log(r.st, Event("done", pStatement, "", ZeroVal, r.rc)),
                       r.st.stmts[pStatement].pNext,
                       IF result = EOK THEN r.rc ELSE result)

\* the rest of a turn of the while loop, rc = ProcessStatement( ... ) having
\* returned r: the trace records the statement's return
LoopTurn(r, pStatement, result) ==
    IF r.rc \in Signals THEN r
    ELSE StatementLoop(Log(r.st, Event("done", pStatement, "", ZeroVal, r.rc)),
                       r.st.stmts[pStatement].pNext,
                       IF r.rc # EOK THEN r.rc ELSE result)

\* the while loop of ProcessCompoundStatement
StatementLoop(st, pStatement, result) ==
    IF pStatement = NULL THEN Ret(st, result)
    ELSE LoopTurn(ProcessStatement(st, pStatement), pStatement, result)

ProcessCompoundStatement(st, pStatements) ==
    IF pStatements = NULL THEN Ret(st, EINVAL)
    ELSE StatementLoop(st, pStatements, EOK)

\* the branches of ProcessIF testing all 32 bits of the condition
IfBranchWide(c, left, right) ==
    IF c.rc # EOK THEN c
    ELSE IF ~IsZero32(UL(ValOf(c.st, left)))
    THEN ProcessCompoundStatement(c.st, c.st.nodes[right].left)
    ELSE IF c.st.nodes[right].right # NULL
    THEN ProcessCompoundStatement(c.st, c.st.nodes[right].right)
    ELSE Ret(c.st, EOK)

\* the branches of ProcessIF taken whatever the condition returned
IfBranchUnchecked(c, left, right) ==
    IF c.rc \in Signals THEN c
    ELSE IF UI(ValOf(c.st, left)) # 0
    THEN ProcessCompoundStatement(c.st, c.st.nodes[right].left)
    ELSE IF c.st.nodes[right].right # NULL
    THEN ProcessCompoundStatement(c.st, c.st.nodes[right].right)
    ELSE Ret(c.st, EOK)

\* the branches of ProcessIF, rc = ProcessVariable( left ) having returned c
IfBranch(c, left, right) ==
    IF c.rc # EOK THEN c
    ELSE IF UI(ValOf(c.st, left)) # 0      \* check
    THEN ProcessCompoundStatement(c.st, c.st.nodes[right].left)
    ELSE IF c.st.nodes[right].right # NULL
    THEN ProcessCompoundStatement(c.st, c.st.nodes[right].right)
    ELSE Ret(c.st, EOK)

ProcessIF(st, left, right) ==
    IF left # NULL /\ right # NULL /\ st.nodes[right].operation = VA_ELSE
    THEN \* evaluate the truth of the IF statement
         IfBranch(ProcessVariable(st, left), left, right)
    ELSE \* rc is returned without ever having been written
         Ret(st, st.env.garbage)

\* the dispatch of ProcessExpr in state st, the evaluation of the right
\* child having returned lrc and that of the left child rrc
Dispatch(st, lrc, rrc, pVariable) ==
    LET left == st.nodes[pVariable].left
        right == st.nodes[pVariable].right
        op == st.nodes[pVariable].operation
    IN  IF op < VA_OP_MAX
        THEN IF st.va_op[op] # NullFn
             THEN CallHandler(st.va_op[op],
                              Log(st, CallEvent(pVariable, st.va_op[op], left,
                                                right, lrc.rc, rrc.rc)),
                              pVariable, left, right)
             ELSE Ret(st, EINVAL)
        ELSE Ret(st, ENOTSUP)

\* ProcessExpr once the left child too has been evaluated, returning rrc
Dispatched(rrc, lrc, pVariable) ==
    IF rrc.rc \in Signals THEN rrc ELSE Dispatch(rrc.st, lrc, rrc, pVariable)

\* the right child evaluated after the left one, for ProcessExprLeftFirst
RightDispatched(lrc, rrc, pVariable) ==
    IF lrc.rc \in Signals THEN lrc ELSE Dispatch(lrc.st, lrc, rrc, pVariable)

EvalRight(rrc, pVariable) ==
    IF rrc.rc \in Signals THEN rrc
    ELSE RightDispatched(ProcessVariable(rrc.st, rrc.st.nodes[pVariable].right),
                         rrc, pVariable)

\* ProcessExpr after the evaluation of the right child returned lrc
EvalLeft(lrc, pVariable) ==
    IF lrc.rc \in Signals THEN lrc
    ELSE Dispatched(ProcessVariable(lrc.st, lrc.st.nodes[pVariable].left),
                    lrc, pVariable)

\* ProcessExpr evaluating the left child before the right one
ProcessExprLeftFirst(st, pVariable) ==
    IF pVariable = NULL THEN Ret(st, EINVAL)
    ELSE EvalRight(ProcessVariable(st, st.nodes[pVariable].left), pVariable)

ProcessExpr(st, pVariable) ==
    IF pVariable = NULL THEN Ret(st, EINVAL)
    ELSE EvalLeft(ProcessVariable(st, st.nodes[pVariable].right), pVariable)

\* what ProcessVariable returns, entered in the trace
Returned(r, pVariable) ==
    IF r.rc \in Signals THEN r
    ELSE Ret(Log(r.st, Event("ret", pVariable, "", ZeroVal, r.rc)), r.rc)

ProcessVariable(st, pVariable) ==
    IF pVariable = NULL THEN Ret(st, EINVAL)
    ELSE Returned(IF st.nodes[pVariable].operation = VA_IF
                  THEN ProcessIF(st, st.nodes[pVariable].left,
                                 st.nodes[pVariable].right)
                  ELSE ProcessExpr(st, pVariable),
                  pVariable)


(***************************************************************************)
(* Node construction and the symbol tables (varaction.c).  These return    *)
(* [st, ptr]: the new state and the node pointer (NULL on failure).        *)
(***************************************************************************)
Ptr(st, p) == [st |-> st, ptr |-> p]

\* calloc( 1, sizeof( Variable ) ) filled in as node
Alloc(st, node) ==
    Ptr([st EXCEPT !.nodes = Append(@, node)], Len(st.nodes) + 1)

TypeCheck(st, pVar1, pVar2) ==
    IF pVar1 # NULL /\ pVar2 # NULL
    THEN IF TypeOf(st, pVar1) = TypeOf(st, pVar2)
         THEN TypeOf(st, pVar1) ELSE TYPE_MISMATCH
    ELSE IF pVar1 # NULL THEN TypeOf(st, pVar1)
    ELSE IF pVar2 # NULL THEN TypeOf(st, pVar2)
    ELSE TYPE_MISMATCH

\* left and right of an ELSE node are statement pointers: its type comes
\* from the fixed case, never from TypeCheck
CreateVariable(st, op, left, right) ==
    LET type == CASE op = VA_FLOAT -> VARTYPE_FLOAT
                  [] op \in {VA_STRING, VA_TOSTRING} -> VARTYPE_STR
                  [] op \in {VA_IF, VA_ELSE} -> VARTYPE_UINT16
                  [] OTHER -> TypeCheck(st, left, right)
    IN  Alloc(st, [ZeroNode EXCEPT !.left = left, !.right = right,
                                   !.operation = op, !.obj.type = type])

CreateDeclaration(st, type_specifier, pVariable) ==
    IF pVariable = NULL THEN Ptr(st, NULL)
    ELSE CASE type_specifier = VA_INT ->
                Ptr([st EXCEPT !.nodes[pVariable].obj.len = 4,
                               !.nodes[pVariable].obj.type = VARTYPE_UINT32],
                    pVariable)
           [] type_specifier = VA_SHORT ->
                Ptr([st EXCEPT !.nodes[pVariable].obj.len = 2,
                               !.nodes[pVariable].obj.type = VARTYPE_UINT16],
                    pVariable)
           [] type_specifier = VA_FLOAT ->
                Ptr([st EXCEPT !.nodes[pVariable].obj.len = 4,
                               !.nodes[pVariable].obj.type = VARTYPE_FLOAT],
                    pVariable)
           [] type_specifier = VA_STRING ->
                Ptr([st EXCEPT !.nodes[pVariable].obj.type = VARTYPE_STR],
                    pVariable)
           [] OTHER -> Ptr(st, NULL)

\* NewNumber on the text of the number n (what strtol returns, as a
\* 32-bit pattern) with its suffix: "" for none, "U" or "L"
NewNumber(st, n, suffix) ==
    LET requestedType == CASE suffix = "U" -> VARTYPE_UINT16
                           [] suffix = "L" -> VARTYPE_UINT32
                           [] OTHER -> "none"
        \* n < -32768 || n > 65535, n a 32-bit int: hi is neither 0 nor the
        \* sign extension of a value in -32768..-1
        out == ~(n.hi = 0 \/ (n.hi = 65535 /\ n.lo >= 32768))
        type == IF out
                THEN IF requestedType = VARTYPE_UINT16 THEN VARTYPE_UINT32
                     ELSE IF requestedType = "none" THEN VARTYPE_UINT32
                     ELSE requestedType
                ELSE IF requestedType = "none" THEN VARTYPE_UINT16
                     ELSE requestedType
    IN  Alloc(st, [ZeroNode EXCEPT
                     !.operation = VA_NUM,
                     !.obj = IF type = VARTYPE_UINT16
                             THEN Obj(type, 2, SetUI(ZeroVal, n.lo))
                             ELSE Obj(type, 4, SetUL(ZeroVal, n))])

\* NewString on the bytes of the string: strdup allocates len + 1 bytes
NewString(st, str) ==
    LET s1 == [st EXCEPT !.heap = Append(@, Buffer(str, Len(str) + 1))]
    IN  Alloc(s1, [ZeroNode EXCEPT
                     !.operation = VA_STRING,
                     !.obj = Obj(VARTYPE_STR, Len(str),
                                 SetStr(ZeroVal, Len(st.heap) + 1)),
                     !.bufsize = Len(str)])

\* NewFloat on the text of the integer-valued float n
NewFloat(st, n) ==
    Alloc(st, [ZeroNode EXCEPT
                 !.operation = VA_FLOATNUM,
                 !.obj = Obj(VARTYPE_FLOAT, 4, SetUL(ZeroVal, FloatBits(n)))])

RECURSIVE FindInList(_, _, _)
\* the scan both Find functions make: first node of the chain with this id
FindInList(st, pVariable, id) ==
    IF pVariable = NULL THEN NULL
    ELSE IF st.nodes[pVariable].id = id THEN pVariable
    ELSE FindInList(st, st.nodes[pVariable].pNext, id)

FindLocalVariable(st, id) == FindInList(st, st.g_pDeclarations, id)

FindVariable(st, id) == FindInList(st, st.g_pFirstSysvar, id)

\* the new system variable put at the head of the list
NewVariableAtHead(st, id, declaration) ==
    LET var == [ZeroNode EXCEPT !.id = id, !.local = declaration]
        s0 == Log(st, Event("find", 0, id, ZeroVal, EOK))
        hVar == VAR_FindByName(st, id)
        a == Alloc(s0, [var EXCEPT !.hVar = hVar, !.operation = VA_SYSVAR])
        g == VAR_Get(a.st, hVar, a.ptr)
        linked == IF g.st.g_pFirstSysvar = NULL
                  THEN [g.st EXCEPT !.g_pFirstSysvar = a.ptr,
                                    !.g_pLastSysvar = a.ptr]
                  ELSE [g.st EXCEPT !.nodes[a.ptr].pNext = g.st.g_pFirstSysvar,
                                    !.g_pFirstSysvar = a.ptr]
        freed == [g.st EXCEPT !.nodes = s0.nodes]
    IN  IF declaration
        THEN Alloc(st, [var EXCEPT !.operation = VA_LOCALVAR])
        ELSE IF hVar = VAR_INVALID THEN Ptr(s0, NULL)
        ELSE IF g.rc = EOK THEN Ptr(linked, a.ptr)
        ELSE Ptr(freed, NULL)

\* the new variable left in the list though its first read failed
NewVariableKeepsFailed(st, id, declaration) ==
    LET var == [ZeroNode EXCEPT !.id = id, !.local = declaration]
        s0 == Log(st, Event("find", 0, id, ZeroVal, EOK))
        hVar == VAR_FindByName(st, id)
        a == Alloc(s0, [var EXCEPT !.hVar = hVar, !.operation = VA_SYSVAR])
        g == VAR_Get(a.st, hVar, a.ptr)
        linked == IF g.st.g_pFirstSysvar = NULL
                  THEN [g.st EXCEPT !.g_pFirstSysvar = a.ptr,
                                    !.g_pLastSysvar = a.ptr]
                  ELSE [g.st EXCEPT !.nodes[g.st.g_pLastSysvar].pNext = a.ptr,
                                    !.g_pLastSysvar = a.ptr]
    IN  IF declaration
        THEN Alloc(st, [var EXCEPT !.operation = VA_LOCALVAR])
        ELSE IF hVar = VAR_INVALID THEN Ptr(s0, NULL)
        ELSE IF g.rc = EOK THEN Ptr(linked, a.ptr)
        ELSE Ptr(linked, NULL)

\* the branch of NewIdentifier that allocates a new variable
NewVariable(st, id, declaration) ==
    LET var == [ZeroNode EXCEPT !.id = id, !.local = declaration]
        s0 == Log(st, Event("find", 0, id, ZeroVal, EOK))
        hVar == VAR_FindByName(st, id)
        a == Alloc(s0, [var EXCEPT !.hVar = hVar, !.operation = VA_SYSVAR])
        g == VAR_Get(a.st, hVar, a.ptr)
        \* add variable at the beginning, or at the end, of the list
        linked == IF g.st.g_pFirstSysvar = NULL
                  THEN [g.st EXCEPT !.g_pFirstSysvar = a.ptr,
                                    !.g_pLastSysvar = a.ptr]
                  ELSE [g.st EXCEPT !.nodes[g.st.g_pLastSysvar].pNext = a.ptr,
                                    !.g_pLastSysvar = a.ptr]
        \* free( var ): the node is gone, what the store was asked remains
        freed == [g.st EXCEPT !.nodes = s0.nodes]
    IN  IF declaration
        THEN Alloc(st, [var EXCEPT !.operation = VA_LOCALVAR])
        ELSE IF hVar = VAR_INVALID THEN Ptr(s0, NULL)
        ELSE IF g.rc = EOK THEN Ptr(linked, a.ptr)
        ELSE Ptr(freed, NULL)

\* NewIdentifier searching the system variables before the declarations
NewIdentifierGlobalFirst(st, id, declaration) ==
    IF id = NullId THEN Ptr(st, NULL)
    ELSE LET glob == FindVariable(st, id)
             var == IF declaration THEN NULL
                    ELSE IF glob # NULL THEN glob
                    ELSE FindLocalVariable(st, id)
         IN  IF var # NULL THEN Ptr(st, var)
             ELSE NewVariable(st, id, declaration)

NewIdentifier(st, id, declaration) ==
    IF id = NullId THEN Ptr(st, NULL)
    ELSE LET loc == FindLocalVariable(st, id)
             var == IF declaration THEN NULL
                    ELSE IF loc # NULL THEN loc
                    ELSE FindVariable(st, id)
         IN  IF var # NULL THEN Ptr(st, var)
             ELSE NewVariable(st, id, declaration)

SetDeclarations(st, pVariable) == [st EXCEPT !.g_pDeclarations = pVariable]


(***************************************************************************)
(* The state machine.  Machine(env) is the library's state as the          *)
(* evaluator functions take it; env is what the environment decides        *)
(* during one call: which store accesses fail and with which code, what    *)
(* an unwritten int holds, how a division by zero ends, whether the        *)
(* allocator is exhausted and whether realloc moves the block, what a     *)
(* shift by 32 or more does, what a pointer never written holds and how    *)
(* the use of a bad pointer ends (it traps), and what timer_create does:   *)
(* it fails for want of resources, or hands out the handle named.          *)
(***************************************************************************)
Env(getFail, setFail, storeErr, garbage, divz) ==
    [getFail |-> getFail, setFail |-> setFail, storeErr |-> storeErr,
     garbage |-> garbage, divz |-> divz, oom |-> FALSE, moves |-> FALSE,
     deref |-> "trap", shift |-> "mask", fmtspec |-> "null",
     timerFail |-> FALSE, handle |-> 1]

NoFault == Env({}, {}, "EIO", EOK, "trap")

Machine(env) ==
    [va_op |-> va_op, nodes |-> nodes, stmts |-> stmts, heap |-> heap,
     store |-> store, g_pDeclarations |-> g_pDeclarations,
     g_pFirstSysvar |-> g_pFirstSysvar, g_pLastSysvar |-> g_pLastSysvar,
     timers |-> timers, activeTimer |-> activeTimer, os_timers |-> os_timers,
     trace |-> << >>, env |-> env, undef |-> FALSE]

\* the library as loaded, beside a store holding vars
Loaded(map, vars0) ==
    [va_op |-> map, nodes |-> << >>, stmts |-> << >>, heap |-> << >>,
     store |-> vars0, g_pDeclarations |-> NULL,
     g_pFirstSysvar |-> NULL, g_pLastSysvar |-> NULL,
     timers |-> [id \in 0 .. (MAX_TIMERS - 1) |-> 0], activeTimer |-> 0,
     os_timers |-> {},
     trace |-> << >>, env |-> NoFault, undef |-> FALSE]

Snapshot(m) ==
    [nodes |-> m.nodes, store |-> m.store, heap |-> m.heap,
     g_pDeclarations |-> m.g_pDeclarations,
     g_pFirstSysvar |-> m.g_pFirstSysvar, g_pLastSysvar |-> m.g_pLastSysvar,
     timers |-> m.timers, activeTimer |-> m.activeTimer,
     os_timers |-> m.os_timers]

\* the state variables take the machine m; toEval is what the caller holds
Start(m, toEval) ==
    /\ va_op = m.va_op
    /\ nodes = m.nodes
    /\ stmts = m.stmts
    /\ heap = m.heap
    /\ store = m.store
    /\ g_pDeclarations = m.g_pDeclarations
    /\ g_pFirstSysvar = m.g_pFirstSysvar
    /\ g_pLastSysvar = m.g_pLastSysvar
    /\ root = toEval
    /\ trace = << >>
    /\ rc = ""
    /\ prev = Snapshot(m)
    /\ last = [call |-> "", arg |-> NULL, env |-> NoFault]
    /\ runs = 0
    /\ timers = m.timers
    /\ activeTimer = m.activeTimer
    /\ os_timers = m.os_timers

\* the call named call, made under env, ended in machine m returning code
\* (a pointer, for the calls that return one); the caller now holds held
CommitHeld(m, code, call, arg, held) ==
    /\ ~m.undef
    /\ va_op' = m.va_op
    /\ nodes' = m.nodes
    /\ stmts' = m.stmts
    /\ heap' = m.heap
    /\ store' = m.store
    /\ g_pDeclarations' = m.g_pDeclarations
    /\ g_pFirstSysvar' = m.g_pFirstSysvar
    /\ g_pLastSysvar' = m.g_pLastSysvar
    /\ root' = held
    /\ trace' = m.trace
    /\ rc' = code
    /\ prev' = Snapshot(Machine(NoFault))
    /\ last' = [call |-> call, arg |-> arg, env |-> m.env]
    /\ runs' = runs + 1
    /\ timers' = m.timers
    /\ activeTimer' = m.activeTimer
    /\ os_timers' = m.os_timers

Commit(m, code, call, arg) == CommitHeld(m, code, call, arg, root)

\* the call named call returned r = [st, rc]
Returning(r, call, arg) == Commit(r.st, r.rc, call, arg)

(***************************************************************************)
(* Identifiers and the store of the compiled actions below: the store      *)
(* knows "a" (handle 1); "x" is declared local.                            *)
(***************************************************************************)
IdA == "a"
IdX == "x"

StoreVar(name, type, len, val) == [name |-> name, obj |-> Obj(type, len, val)]

(***************************************************************************)
(* SpecExpr: expression trees.  The compiler has built, over the literal   *)
(* 1 (node 1), the system variable a (node 2, possibly flagged l-value)    *)
(* and the local short x (node 3), a root operator whose operands are      *)
(* absent, one of these leaves, or an inner operator over them.            *)
(***************************************************************************)
Operand(k, op, l, r) == [k |-> k, op |-> op, l |-> l, r |-> r]

ExprInnerOps == { VA_ASSIGN, VA_PLUS_EQUALS, VA_ILLEGAL }
ExprRootOps == { VA_ASSIGN, VA_MINUS_EQUALS, VA_AND_EQUALS, VA_NUM,
                 VA_SHORT, VA_OP_MAX }

ExprOperands ==
    { Operand("leaf", 0, p, NULL) : p \in 0 .. 3 } \cup
    { Operand("inner", o, a, b) : o \in ExprInnerOps, a \in {2, 3}, b \in 0 .. 2 }

\* the operand d as the compiler builds it: [st, ptr]
BuildOperand(m, d) ==
    IF d.k = "leaf" THEN Ptr(m, d.l) ELSE CreateVariable(m, d.op, d.l, d.r)

\* the node n = [st, ptr] flagged as an l-value, or not
Flagged(n, lv) == [n.st EXCEPT !.nodes[n.ptr].lvalue = lv]

\* the node n = [st, ptr] declared with the type specifier, and the
\* declaration made the current one
Declared(n, type_specifier) ==
    SetDeclarations(CreateDeclaration(n.st, type_specifier, n.ptr).st, n.ptr)

ExprLeaves(map, lv) ==
    LET m0 == Loaded(map,
                     << StoreVar(IdA, VARTYPE_UINT16, 2, SetUI(ZeroVal, 1)) >>)
        n1 == NewNumber(m0, U32(1), "")
        n2 == NewIdentifier(n1.st, IdA, FALSE)
        n3 == NewIdentifier(Flagged(n2, lv), IdX, TRUE)
    IN  Declared(n3, VA_SHORT)

\* the operator op over the operand l = [st, ptr] and the operand dr
OverOperands(l, dr, op) ==
    LET r == BuildOperand(l.st, dr)
    IN  CreateVariable(r.st, op, l.ptr, r.ptr)

ExprProgram(lv, op, dl, dr) ==
    OverOperands(BuildOperand(ExprLeaves(InitVarActionMap, lv), dl), dr, op)

\* the caller holds the expression c = [st, ptr]
StartExpr(c) == Start(c.st, [kind |-> "expr", p |-> c.ptr])

InitExpr ==
    \E lv \in BOOLEAN, op \in ExprRootOps, dl \in ExprOperands, dr \in ExprOperands :
        StartExpr(ExprProgram(lv, op, dl, dr))

ExprEnvs ==
    { Env(g, s, e, EOK, "trap") : g \in SUBSET {1}, s \in SUBSET {1},
                                   e \in StoreErrors }

\* the caller evaluates the compiled tree
EvalExpr ==
    /\ runs < MaxRuns
    /\ \E env \in ExprEnvs :
          Returning(ProcessVariable(Machine(env), root.p),
                    "ProcessVariable", root.p)

NextExpr == EvalExpr

SpecExpr == InitExpr /\ [][NextExpr]_vars


(***************************************************************************)
(* SpecDispatch: the operation map.  The library is loaded with the map    *)
(* still empty; the caller may run InitVarAction, and may hand             *)
(* ProcessExpr a node of any operation code that the map gives to NOP or   *)
(* to Unsupported, or of a code past the end of the map, over the leaves   *)
(* of SpecExpr.                                                            *)
(***************************************************************************)
DispatchOps ==
    { op \in 0 .. (VA_OP_MAX + 1) :
         \/ op >= VA_OP_MAX
         \/ InitVarActionMap[op] \in { "NOP", "Unsupported" } }

InitDispatch ==
    \E lv \in BOOLEAN, op \in DispatchOps, l \in 0 .. 3, r \in 0 .. 3 :
        StartExpr(CreateVariable(ExprLeaves(EmptyMap, lv), op, l, r))

InitVarAction ==
    /\ last.call # "InitVarAction"
    /\ Commit([Machine(NoFault) EXCEPT !.va_op = InitVarActionMap], EOK,
              "InitVarAction", NULL)

EvalNode ==
    /\ runs < MaxRuns + 1
    /\ last.call # "ProcessExpr"
    /\ \E env \in ExprEnvs :
          Returning(ProcessExpr(Machine(env), root.p), "ProcessExpr", root.p)

NextDispatch == InitVarAction \/ EvalNode

SpecDispatch == InitDispatch /\ [][NextDispatch]_vars

(***************************************************************************)
(* SpecAssign: one assignment operator.  The store holds a (handle 1) and  *)
(* b (handle 2), both of type t; the compiler has built the literal c      *)
(* (node 1), a (node 2, possibly flagged l-value), b (node 3) and the      *)
(* local x of type t (node 4), and the operator op with left operand a or  *)
(* x and right operand c or b.  A string operator has x on its left and    *)
(* the string literal on its right: the store's variables are numeric.     *)
(***************************************************************************)
IdB == "b"

AssignOps == { VA_ASSIGN, VA_PLUS_EQUALS, VA_MINUS_EQUALS, VA_TIMES_EQUALS,
               VA_DIV_EQUALS, VA_AND_EQUALS, VA_OR_EQUALS, VA_XOR_EQUALS }

NumTypes == { VARTYPE_UINT16, VARTYPE_UINT32, VARTYPE_FLOAT }

\* the i-th value of type t: 0 .. MaxNum, then the largest of the type
\* (for a float, the next integer)
TopU32 == [hi |-> W16 - 1, lo |-> W16 - 1]

NumValue(t, i) ==
    CASE t = VARTYPE_UINT16 -> IF i > MaxNum THEN U32(W16 - 1) ELSE U32(i)
      [] t = VARTYPE_UINT32 -> IF i > MaxNum THEN TopU32 ELSE U32(i)
      [] t = VARTYPE_FLOAT -> FloatBits(i)

Strings == { << >>, << 1 >>, << 1, 2 >> }

TypeSpecifier(t) ==
    CASE t = VARTYPE_UINT16 -> VA_SHORT
      [] t = VARTYPE_UINT32 -> VA_INT
      [] t = VARTYPE_FLOAT -> VA_FLOAT
      [] t = VARTYPE_STR -> VA_STRING

\* the literal of type t the compiler makes of c: [st, ptr]
Literal(m, t, c) ==
    CASE t = VARTYPE_UINT16 -> NewNumber(m, NumValue(t, c), "U")
      [] t = VARTYPE_UINT32 -> NewNumber(m, NumValue(t, c), "L")
      [] t = VARTYPE_FLOAT -> NewFloat(m, c)
      [] t = VARTYPE_STR -> NewString(m, c)

AssignLeaves(t, lv, va, c) ==
    LET st == IF t = VARTYPE_STR THEN VARTYPE_UINT16 ELSE t
        sv == IF t = VARTYPE_STR THEN 0 ELSE va
        len == IF st = VARTYPE_UINT16 THEN 2 ELSE 4
        m0 == Loaded(InitVarActionMap,
                     << StoreVar(IdA, st, len, SetUL(ZeroVal, NumValue(st, sv))),
                        StoreVar(IdB, st, len, SetUL(ZeroVal, NumValue(st, 1))) >>)
        n1 == Literal(m0, t, c)
        n2 == NewIdentifier(n1.st, IdA, FALSE)
        n3 == NewIdentifier(Flagged(n2, lv), IdB, FALSE)
        n4 == NewIdentifier(n3.st, IdX, TRUE)
    IN  Declared(n4, TypeSpecifier(t))

InitAssign ==
    \/ \E t \in NumTypes, lv \in BOOLEAN, va \in 0 .. (MaxNum + 1),
          c \in 0 .. (MaxNum + 1), op \in AssignOps, l \in {2, 4}, r \in {1, 3} :
          StartExpr(CreateVariable(AssignLeaves(t, lv, va, c), op, l, r))
    \/ \E c \in Strings, op \in { VA_ASSIGN, VA_PLUS_EQUALS, VA_AND_EQUALS } :
          StartExpr(CreateVariable(AssignLeaves(VARTYPE_STR, FALSE, 0, c),
                                   op, 4, 1))

AssignEnvs ==
    { Env(g, s, e, EOK, d) : g \in { {}, {1}, {2} }, s \in SUBSET {1},
                             e \in StoreErrors, d \in { "trap", "zero" } }

\* the caller evaluates the assignment
EvalAssign ==
    /\ runs < MaxRuns
    /\ \E env \in AssignEnvs :
          Returning(ProcessVariable(Machine(env), root.p),
                    "ProcessVariable", root.p)

NextAssign == EvalAssign

SpecAssign == InitAssign /\ [][NextAssign]_vars

(***************************************************************************)
(* SpecIf: IF statements and statement lists.  The store holds a (handle   *)
(* 1, value n) and b (handle 2), both shorts.  The compiler has built the  *)
(* literal n (node 1), the literal 65536 (node 2: a 32-bit value whose     *)
(* low half is zero), a (node 3), b (node 4) and an operator with no       *)
(* handler of its own (node 5).  A statement runs a script, is empty, or   *)
(* evaluates b.  The IF has one of the five nodes, or nothing, as its      *)
(* condition; its right child is an ELSE node over a then-list and an      *)
(* else-list, is missing, or is node 1.                                    *)
(***************************************************************************)
Stmt(pVariable, script, pNext) ==
    [pVariable |-> pVariable, script |-> script, pNext |-> pNext]

\* calloc( 1, sizeof( Statement ) ) filled in as stmt
AllocStmt(st, stmt) ==
    Ptr([st EXCEPT !.stmts = Append(@, stmt)], Len(st.stmts) + 1)

StmtKinds == { "script", "empty", "sysvar" }

RECURSIVE ListsOf(_)
\* the lists of 1 .. n statement kinds
ListsOf(n) ==
    IF n = 0 THEN { }
    ELSE { << k >> : k \in StmtKinds }
         \cup { Append(l, k) : l \in ListsOf(n - 1), k \in StmtKinds }

ThenLists == { << >> } \cup ListsOf(MaxStmts)
ElseLists == { << >> } \cup ListsOf(1)

RECURSIVE BuildList(_, _)
\* the statements of kinds, linked in order: [st, ptr] (NULL for none)
BuildList(st, kinds) ==
    IF kinds = << >> THEN Ptr(st, NULL)
    ELSE LET rest == BuildList(st, Tail(kinds))
             k == Head(kinds)
         IN  AllocStmt(rest.st,
                       Stmt(IF k = "sysvar" THEN 4 ELSE NULL,
                            IF k = "script" THEN 1 ELSE NULL,
                            rest.ptr))

IfLeaves(n) ==
    LET m0 == Loaded(InitVarActionMap,
                     << StoreVar(IdA, VARTYPE_UINT16, 2, SetUI(ZeroVal, n)),
                        StoreVar(IdB, VARTYPE_UINT16, 2, SetUI(ZeroVal, 1)) >>)
        n1 == NewNumber(m0, U32(n), "")
        n2 == NewNumber(n1.st, [hi |-> 1, lo |-> 0], "")
        n3 == NewIdentifier(n2.st, IdA, FALSE)
        n4 == NewIdentifier(n3.st, IdB, FALSE)
    IN  CreateVariable(n4.st, VA_ILLEGAL, NULL, NULL).st

IfShapes == { "else", "none", "wrong" }

\* the IF over condition cond (0 for none) and a right child of this shape
\* the IF node over cond and the right child w = [st, ptr]
IfNode(w, cond) == CreateVariable(w.st, VA_IF, cond, w.ptr)

\* the right child over the lists t and e, both [st, ptr], e built last
IfRight(t, e, shape) ==
    IF shape = "else" THEN CreateVariable(e.st, VA_ELSE, t.ptr, e.ptr)
    ELSE Ptr(e.st, IF shape = "none" THEN NULL ELSE 1)

\* the IF over the then-list t = [st, ptr] and the statements of else
IfOver(t, cond, shape, else) ==
    [i |-> IfNode(IfRight(t, BuildList(t.st, else), shape), cond),
     list |-> t.ptr]

IfProgram(n, cond, shape, then, else) ==
    IfOver(BuildList(IfLeaves(n), then), cond, shape, else)

\* the caller holds the IF p.i = [st, ptr] and the then-list p.list
StartIf(p) == Start(p.i.st, [kind |-> "if", p |-> p.i.ptr, list |-> p.list])

InitIf ==
    \E n \in 0 .. MaxNum, cond \in 0 .. 5, shape \in IfShapes,
       then \in ThenLists, else \in ElseLists :
        /\ shape # "else" => then = << "script" >> /\ else = << >>
        /\ StartIf(IfProgram(n, cond, shape, then, else))

\* the IF has a condition and an ELSE node
WellFormed ==
    /\ nodes[root.p].left # NULL
    /\ nodes[root.p].right # NULL
    /\ nodes[nodes[root.p].right].operation = VA_ELSE

\* a store read may fail, with either code; what the uninitialised rc of
\* ProcessIF holds matters only to an IF that is not well formed
IfEnvs ==
    { Env(g, {}, e, x, "trap") :
         g \in { {}, {1}, {2} }, e \in StoreErrors,
         x \in IF WellFormed THEN { EOK } ELSE IntValues }

\* the caller evaluates the IF statement
EvalIf ==
    /\ runs < MaxRuns
    /\ \E env \in IfEnvs :
          Returning(ProcessVariable(Machine(env), root.p),
                    "ProcessVariable", root.p)

\* the caller executes the then-list as a compound statement of its own
EvalList ==
    /\ runs < MaxRuns
    /\ \E env \in IfEnvs :
          Returning(ProcessCompoundStatement(Machine(env), root.list),
                    "ProcessCompoundStatement", root.list)

NextIf == EvalIf \/ EvalList

SpecIf == InitIf /\ [][NextIf]_vars

(***************************************************************************)
(* SpecSym: the symbol tables.  The store knows a and b; x is known to     *)
(* nobody.  The compiler references identifiers, declares locals (it       *)
(* links each declared node in front of the declarations it holds) and     *)
(* installs the declarations it holds, or none, as the current list.       *)
(***************************************************************************)
SymIds == { IdA, IdB, IdX }

InitSym ==
    Start(Loaded(InitVarActionMap,
                 << StoreVar(IdA, VARTYPE_UINT16, 2, SetUI(ZeroVal, 1)),
                    StoreVar(IdB, VARTYPE_UINT32, 4, SetUL(ZeroVal, U32(2))) >>),
          [kind |-> "sym", p |-> NULL, decls |-> NULL])

\* the store's reads all succeed, or all fail
SymEnvs == { Env(g, {}, "EIO", EOK, "trap") : g \in { {}, {1, 2} } }

\* NewIdentifier( hVarServer, id, false ) returned r = [st, ptr]
Referencing(r, id) ==
    Commit(r.st, r.ptr, "NewIdentifier", [id |-> id, declaration |-> FALSE])

\* NewIdentifier( hVarServer, id, false )
Reference ==
    /\ runs < MaxCalls
    /\ \E id \in SymIds \cup { NullId }, env \in SymEnvs :
          Referencing(NewIdentifier(Machine(env), id, FALSE), id)

\* CreateDeclaration( VA_SHORT, r.ptr ) for the node NewIdentifier returned
\* in r = [st, ptr], and the compiler's linking of the declaration d to the
\* declarations it holds
Declaring(r, id) ==
    LET d == CreateDeclaration(r.st, VA_SHORT, r.ptr)
    IN  CommitHeld([d.st EXCEPT !.nodes[d.ptr].pNext = root.decls], d.ptr,
                   "NewIdentifier", [id |-> id, declaration |-> TRUE],
                   [root EXCEPT !.decls = d.ptr])

\* CreateDeclaration( VA_SHORT, NewIdentifier( hVarServer, id, true ) )
Declare ==
    /\ runs < MaxCalls
    /\ \E id \in SymIds :
          Declaring(NewIdentifier(Machine(NoFault), id, TRUE), id)

\* SetDeclarations on the declarations held, or on none when a new unit
\* begins
Install ==
    /\ runs < MaxCalls
    /\ \E p \in { root.decls, NULL } :
          CommitHeld(SetDeclarations(Machine(NoFault), p), p, "SetDeclarations",
                     [id |-> NullId, declaration |-> FALSE],
                     [root EXCEPT !.decls = p])

NextSym == Reference \/ Declare \/ Install

SpecSym == InitSym /\ [][NextSym]_vars

(***************************************************************************)
(* SpecLocal: a local variable.  The store holds a (handle 1, value 1) of  *)
(* type t; the compiler has built the literal c of type t (node 1), a      *)
(* (node 2), the local x declared of type t (node 3) and, over them, the   *)
(* statements x = c (4), x = a (5), x op= c (6), x++ (7), ++x (8),         *)
(* x-- (9) and --x (10).  The caller evaluates x or any of the statements, *)
(* in any order; the compiler may declare one more local, named like x or  *)
(* like the store's a.                                                     *)
(***************************************************************************)
LocalOps == { VA_PLUS_EQUALS, VA_XOR_EQUALS }

\* the literals: 5, and the largest value of the type (for a float, 5)
LocalValues(t) ==
    CASE t = VARTYPE_UINT16 -> { U32(5), U32(W16 - 1) }
      [] t = VARTYPE_UINT32 -> { U32(5), TopU32 }
      [] t = VARTYPE_FLOAT -> { U32(5) }

LocalLiteral(m, t, v) ==
    CASE t = VARTYPE_UINT16 -> NewNumber(m, v, "U")
      [] t = VARTYPE_UINT32 -> NewNumber(m, v, "L")
      [] t = VARTYPE_FLOAT -> NewFloat(m, v.lo)

LocalLeaves(t, v) ==
    LET m0 == Loaded(InitVarActionMap,
                     << StoreVar(IdA, t, IF t = VARTYPE_UINT16 THEN 2 ELSE 4,
                                 SetUL(ZeroVal, NumValue(t, 1))) >>)
        n1 == LocalLiteral(m0, t, v)
        n2 == NewIdentifier(n1.st, IdA, FALSE)
        n3 == NewIdentifier(n2.st, IdX, TRUE)
    IN  Declared(n3, TypeSpecifier(t))

LocalProgram(t, v, op) ==
    LET n4 == CreateVariable(LocalLeaves(t, v), VA_ASSIGN, 3, 1)
        n5 == CreateVariable(n4.st, VA_ASSIGN, 3, 2)
        n6 == CreateVariable(n5.st, op, 3, 1)
        n7 == CreateVariable(n6.st, VA_INC, 3, NULL)
        n8 == CreateVariable(n7.st, VA_INC, NULL, 3)
        n9 == CreateVariable(n8.st, VA_DEC, 3, NULL)
    IN  CreateVariable(n9.st, VA_DEC, NULL, 3).st

InitLocal ==
    \E t \in NumTypes, op \in LocalOps :
       \E v \in LocalValues(t) :
          Start(LocalProgram(t, v, op), [kind |-> "local", p |-> 3])

\* a store read may fail, and so may a store write
LocalEnvs ==
    { Env(g, s, "EIO", EOK, "trap") : g \in SUBSET {1}, s \in { {}, {0, 1} } }

\* the caller evaluates x (node 3) or one of the statements
EvalLocal ==
    /\ runs < MaxSteps
    /\ \E p \in 3 .. 10, env \in LocalEnvs :
          Returning(ProcessVariable(Machine(env), p), "ProcessVariable", p)

\* NewIdentifier( hVarServer, id, true ) returned r = [st, ptr]
Created(r, id) ==
    Commit(r.st, r.ptr, "NewIdentifier", [id |-> id, declaration |-> TRUE])

\* the compiler declares one more local
DeclareLocal ==
    /\ runs < MaxSteps
    /\ last.call # "NewIdentifier"
    /\ \E id \in { IdX, IdA } :
          Created(NewIdentifier(Machine(NoFault), id, TRUE), id)

NextLocal == EvalLocal \/ DeclareLocal

SpecLocal == InitLocal /\ [][NextLocal]_vars

(***************************************************************************)
(* SpecCompare: the comparison operators.  The compiler has built three    *)
(* operands A, B, C (nodes 1, 2, 3) of one type: 16-bit or 32-bit          *)
(* literals, or strings, each a string literal or a local declared string  *)
(* that was never assigned (its val.str is null); and over them the        *)
(* comparisons of CompareRoots (nodes 4 and up).  The caller evaluates the *)
(* comparisons one after the other; each result node keeps its value.      *)
(***************************************************************************)
CompareTypes == { VARTYPE_UINT16, VARTYPE_UINT32, VARTYPE_STR }

CompareStrings == { << >>, << 1 >>, << 1, 2 >>, << 2 >>, << 200 >> }

\* the operands of type t
CompareOperands(t) ==
    CASE t = VARTYPE_UINT16 -> { U32(0), U32(1), U32(W16 - 1) }
      [] t = VARTYPE_UINT32 -> { U32(0), U32(1), [hi |-> 1, lo |-> 0], TopU32 }
      [] t = VARTYPE_STR ->
           { [null |-> TRUE, s |-> << >>] }
           \cup { [null |-> FALSE, s |-> x] : x \in CompareStrings }

\* CreateDeclaration( type_specifier, n.ptr ) of the node n = [st, ptr]
DeclaredAs(n, type_specifier) == CreateDeclaration(n.st, type_specifier, n.ptr)

\* the operand v of type t as the compiler builds it: [st, ptr]
CompareLeaf(m, t, v) ==
    IF t = VARTYPE_STR
    THEN IF v.null THEN DeclaredAs(NewIdentifier(m, IdX, TRUE), VA_STRING)
         ELSE NewString(m, v.s)
    ELSE LocalLiteral(m, t, v)

Cmp(op, l, r) == [op |-> op, l |-> l, r |-> r]

CompareRoots ==
    << Cmp(VA_EQUALS, 1, 2), Cmp(VA_NOTEQUALS, 1, 2), Cmp(VA_GT, 1, 2),
       Cmp(VA_LT, 1, 2), Cmp(VA_GTE, 1, 2), Cmp(VA_LTE, 1, 2),
       Cmp(VA_GT, 2, 1), Cmp(VA_LTE, 2, 1),
       Cmp(VA_LT, 2, 3), Cmp(VA_GT, 2, 3),
       Cmp(VA_LT, 1, 3), Cmp(VA_GT, 1, 3),
       Cmp(VA_EQUALS, 1, 1), Cmp(VA_GTE, 1, 1), Cmp(VA_LTE, 1, 1) >>

RECURSIVE BuildRoots(_, _)
\* the comparisons of roots built in order: the machine
BuildRoots(st, roots) ==
    IF roots = << >> THEN st
    ELSE BuildRoots(CreateVariable(st, Head(roots).op, Head(roots).l,
                                   Head(roots).r).st,
                    Tail(roots))

CompareProgram(t, a, b, c) ==
    LET n1 == CompareLeaf(Loaded(InitVarActionMap, << >>), t, a)
        n2 == CompareLeaf(n1.st, t, b)
        n3 == CompareLeaf(n2.st, t, c)
    IN  BuildRoots(n3.st, CompareRoots)

InitCompare ==
    \E t \in CompareTypes :
       \E a \in CompareOperands(t), b \in CompareOperands(t),
          c \in CompareOperands(t) :
          Start(CompareProgram(t, a, b, c), [kind |-> "compare", p |-> 4])

\* the caller evaluates the next comparison
EvalCompare ==
    /\ runs < Len(CompareRoots)
    /\ Returning(ProcessVariable(Machine(NoFault), 3 + runs + 1),
                 "ProcessVariable", 3 + runs + 1)

NextCompare == EvalCompare

SpecCompare == InitCompare /\ [][NextCompare]_vars

(***************************************************************************)
(* Properties.                                                             *)
(***************************************************************************)
Calls(tr) == SelectSeq(tr, LAMBDA e : e.ev = "call")

\* what a call entry says of the call: node, handler, arguments
CallOf(e) == [n |-> e.n, fn |-> e.fn, l |-> e.l, r |-> e.r]

CallsMade(tr) == [i \in 1 .. Len(Calls(tr)) |-> CallOf(Calls(tr)[i])]

Evaluated == last.call = "ProcessVariable" /\ rc # SIGFPE

RECURSIVE ExpectedCalls(_, _)
\* the handler calls the evaluation of the IF-free tree at p is to make:
\* those of the right subtree, those of the left subtree, then the node's own
ExpectedCalls(ns, p) ==
    IF p = NULL THEN << >>
    ELSE ExpectedCalls(ns, ns[p].right) \o ExpectedCalls(ns, ns[p].left) \o
         ( IF ns[p].operation < VA_OP_MAX
           THEN << [n |-> p, fn |-> va_op[ns[p].operation],
                    l |-> ns[p].left, r |-> ns[p].right] >>
           ELSE << >> )

C6_ChildFailureReported ==
    Evaluated =>
        \A i \in 1 .. Len(trace) :
            ( /\ trace[i].ev = "call"
              /\ trace[i].n = root.p
              /\ \/ (trace[i].l # NULL /\ trace[i].leftRc # EOK)
                 \/ (trace[i].r # NULL /\ trace[i].rightRc # EOK) )
            => rc # EOK

\* the position in the trace of the (only) handler call made for node n
HasCall(tr, n) == \E i \in 1 .. Len(tr) : tr[i].ev = "call" /\ tr[i].n = n
CallIndex(tr, n) == CHOOSE i \in 1 .. Len(tr) : tr[i].ev = "call" /\ tr[i].n = n
After(tr, i) == SubSeq(tr, i + 1, Len(tr))
Sets(tr) == SelectSeq(tr, LAMBDA e : e.ev = "set")
Gets(tr) == SelectSeq(tr, LAMBDA e : e.ev = "get")

(***************************************************************************)
(* C8.  Once InitVarAction has run, every code below VA_OP_MAX has a       *)
(* handler; VA_ILLEGAL, VA_IF, VA_ELSE and the type specifiers have        *)
(* Unsupported, and ProcessExpr on such a node returns ENOTSUP; VA_NUM,    *)
(* VA_FLOATNUM, VA_STRING and VA_LOCALVAR have NOP, and ProcessExpr on     *)
(* such a node returns EOK with nothing after the handler's call but the   *)
(* return: the node is as it was and the store has not been reached.  A    *)
(* code of VA_OP_MAX or more returns ENOTSUP, with or without the map.     *)
(***************************************************************************)
NoImplementation == { VA_ILLEGAL, VA_IF, VA_ELSE, VA_FLOAT, VA_INT, VA_SHORT }
ValueLeaves == { VA_NUM, VA_FLOATNUM, VA_STRING, VA_LOCALVAR }
Initialised == va_op # EmptyMap
RootOp == nodes[root.p].operation

C8_DispatchTable ==
    /\ (last.call = "InitVarAction" \/ Initialised) =>
          /\ \A op \in OpCodes : va_op[op] # NullFn
          /\ \A op \in NoImplementation : va_op[op] = "Unsupported"
          /\ \A op \in ValueLeaves : va_op[op] = "NOP"
    /\ (last.call = "ProcessExpr" /\ RootOp >= VA_OP_MAX) =>
          rc = ENOTSUP /\ ~HasCall(trace, root.p)
    /\ (last.call = "ProcessExpr" /\ Initialised /\ RootOp \in NoImplementation) =>
          rc = ENOTSUP
    /\ (last.call = "ProcessExpr" /\ Initialised /\ RootOp \in ValueLeaves) =>
          /\ rc = EOK
          /\ HasCall(trace, root.p)
          /\ trace[Len(trace)].ev = "call"
          /\ trace[Len(trace)].n = root.p
          /\ trace[Len(trace)].fn = "NOP"
          /\ nodes[root.p] = prev.nodes[root.p]

C8_Witness ==
    /\ last.call = "ProcessExpr"
    /\ Initialised
    /\ RootOp = VA_STRING
    /\ nodes[root.p].left = 2
    /\ Len(Gets(trace)) = 1
    /\ rc = EOK

(***************************************************************************)
(* C4.  A compound assignment whose left operand is a system variable      *)
(* writes the store at most once, and exactly when its arithmetic          *)
(* succeeded (the operand's type is one the handler computes); the value   *)
(* written is the result of the arithmetic, which the left operand then    *)
(* holds in memory.  If the write fails the handler returns the store's    *)
(* code, the store is as it was, and the left operand still holds the      *)
(* result.                                                                 *)
(***************************************************************************)
CompoundOps == AssignOps \ { VA_ASSIGN }

Operator(fn) ==
    CASE fn = "PlusEquals" -> "+"
      [] fn = "MinusEquals" -> "-"
      [] fn = "TimesEquals" -> "*"
      [] fn = "DivEquals" -> "/"
      [] fn = "AndEquals" -> "and"
      [] fn = "OrEquals" -> "or"
      [] fn = "XorEquals" -> "xor"

\* the types the compound handler fn computes
Computes(fn, type) ==
    \/ type \in { VARTYPE_UINT16, VARTYPE_UINT32 }
    \/ type = VARTYPE_FLOAT /\ Operator(fn) \in { "+", "-", "*", "/" }

ZeroDivisor(type, r) == IF type = VARTYPE_UINT16 THEN UI(r) = 0 ELSE IsZero32(UL(r))

\* what l (f)= r leaves in an operand of this type
CompoundResult(f, type, l, r) ==
    CASE type = VARTYPE_UINT16 -> SetUI(l, Arith16(f, UI(l), UI(r)))
      [] type = VARTYPE_UINT32 -> SetUL(l, Arith32(f, UL(l), UL(r)))
      [] type = VARTYPE_FLOAT -> SetUL(l, FloatArith(f, UL(l), UL(r)))

\* the trace tr holds a successful read of the store's variable h
ReadOk(tr, h) ==
    \E i \in 1 .. Len(tr) : tr[i].ev = "get" /\ tr[i].n = h /\ tr[i].rc = EOK

RootLeft == nodes[root.p].left
RootRight == nodes[root.p].right

CompoundOnSysvar ==
    /\ last.call = "ProcessVariable"
    /\ rc # SIGFPE
    /\ RootOp \in CompoundOps
    /\ nodes[RootLeft].operation = VA_SYSVAR

C4_WriteAfterArithmetic ==
    CompoundOnSysvar =>
       LET k == CallIndex(trace, root.p)
           fn == trace[k].fn
           type == nodes[RootLeft].obj.type
           \* the left operand as the handler finds it: as read from the
           \* store by the operand's own evaluation, or as it was in memory
           before == IF ReadOk(SubSeq(trace, 1, k - 1), nodes[RootLeft].hVar)
                     THEN prev.store[nodes[RootLeft].hVar].obj.val
                     ELSE prev.nodes[RootLeft].obj.val
           right == nodes[RootRight].obj.val
           after == After(trace, k)
           sets == Sets(after)
       IN  /\ HasCall(trace, root.p)
           /\ Len(sets) = (IF Computes(fn, type) THEN 1 ELSE 0)
           /\ Len(after) = Len(sets) + 1
           /\ ~Computes(fn, type) =>
                 rc = ENOTSUP /\ nodes[RootLeft] = prev.nodes[RootLeft]
           /\ Computes(fn, type) =>
                 /\ sets[1] = after[1]
                 /\ sets[1].n = nodes[RootLeft].hVar
                 /\ sets[1].val = nodes[RootLeft].obj.val
                 /\ ~(Operator(fn) = "/" /\ ZeroDivisor(type, right)) =>
                       sets[1].val = CompoundResult(Operator(fn), type, before, right)
                 /\ rc = sets[1].rc
                 /\ sets[1].rc # EOK =>
                       /\ rc = last.env.storeErr
                       /\ store = prev.store
                 /\ sets[1].rc = EOK =>
                       store[sets[1].n].obj.val = sets[1].val

\* += on a: the write failed, and a holds the sum in memory
C4_Witness ==
    /\ CompoundOnSysvar
    /\ RootOp = VA_PLUS_EQUALS
    /\ rc \in StoreErrors
    /\ Len(Sets(trace)) = 1
    /\ nodes[RootLeft].obj.val # prev.nodes[RootLeft].obj.val
    /\ store = prev.store

(***************************************************************************)
(* C5.  GetVar on a system variable flagged l-value returns EOK without    *)
(* reading the store; on one not flagged it reads the store once, and the  *)
(* store is read nowhere else, so each read comes before the handler of    *)
(* the node's parent.  An Assign whose left operand is an l-value system   *)
(* variable writes the store exactly once, with the right operand's value, *)
(* and never reads that variable.                                          *)
(***************************************************************************)
GetVarCall(e) == e.ev = "call" /\ e.fn = "GetVar"

C5_LvalueSkipsRead ==
    (last.call = "ProcessVariable" /\ rc # SIGFPE) =>
       /\ \A i \in 1 .. Len(trace) :
             GetVarCall(trace[i]) =>
                /\ i < Len(trace)
                /\ IF prev.nodes[trace[i].n].lvalue
                   THEN /\ trace[i + 1].ev = "ret"
                        /\ trace[i + 1].n = trace[i].n
                        /\ trace[i + 1].rc = EOK
                   ELSE /\ trace[i + 1].ev = "get"
                        /\ trace[i + 1].n = nodes[trace[i].n].hVar
                        /\ i + 1 < Len(trace)
                        /\ trace[i + 2].ev = "ret"
                        /\ trace[i + 2].n = trace[i].n
                        /\ i + 2 < CallIndex(trace, root.p)
       /\ \A j \in 1 .. Len(trace) :
             trace[j].ev = "get" =>
                /\ j > 1
                /\ GetVarCall(trace[j - 1])
                /\ ~prev.nodes[trace[j - 1].n].lvalue
       /\ ( /\ RootOp = VA_ASSIGN
            /\ nodes[RootLeft].operation = VA_SYSVAR
            /\ nodes[RootLeft].lvalue ) =>
             LET h == nodes[RootLeft].hVar
                 type == nodes[RootLeft].obj.type
                 right == nodes[RootRight].obj.val
                 sets == Sets(After(trace, CallIndex(trace, root.p)))
             IN  /\ Sets(trace) = sets
                 /\ Len(sets) = 1
                 /\ sets[1].n = h
                 /\ IF type = VARTYPE_UINT16
                    THEN UI(sets[1].val) = UI(right)
                    ELSE UL(sets[1].val) = UL(right)
                 /\ \A j \in 1 .. Len(trace) : trace[j].ev = "get" => trace[j].n # h

\* a = b with a flagged l-value: b is read, a is written, a is not read
C5_Witness ==
    /\ last.call = "ProcessVariable"
    /\ RootOp = VA_ASSIGN
    /\ RootLeft = 2
    /\ RootRight = 3
    /\ nodes[2].lvalue
    /\ Len(Gets(trace)) = 1
    /\ Gets(trace)[1].n = 2
    /\ Len(Sets(trace)) = 1
    /\ Sets(trace)[1].n = 1
    /\ store[1].obj.val # prev.store[1].obj.val

RECURSIVE Chain(_, _)
\* the statements of the list at p, in list order
Chain(sts, p) == IF p = NULL THEN << >> ELSE << p >> \o Chain(sts, sts[p].pNext)

Started(tr) == SelectSeq(tr, LAMBDA e : e.ev = "stmt")
Done(tr) == SelectSeq(tr, LAMBDA e : e.ev = "done")
Executed(tr) == [i \in 1 .. Len(Started(tr)) |-> Started(tr)[i].n]

\* the code of the last statement that failed, EOK when none did
ListCode(done) ==
    LET failed == { i \in 1 .. Len(done) : done[i].rc # EOK }
    IN  IF failed = { } THEN EOK
        ELSE done[CHOOSE i \in failed : \A j \in failed : j <= i].rc

\* what one statement returns, from its kind and the store's faults
StatementCode(s) ==
    IF stmts[s].pVariable # NULL
    THEN IF nodes[stmts[s].pVariable].hVar \in last.env.getFail
         THEN last.env.storeErr ELSE EOK
    ELSE IF stmts[s].script # NULL THEN EOK ELSE ENOTSUP

(***************************************************************************)
(* C3.  ProcessCompoundStatement on a non-empty list starts and finishes   *)
(* each statement of the list once, one after the other in list order,     *)
(* whatever the statements before it returned, and returns the code of     *)
(* the last statement that failed, EOK when none failed.                   *)
(***************************************************************************)
C3_AllStatementsInOrder ==
    (last.call = "ProcessCompoundStatement" /\ root.list # NULL) =>
       LET chain == Chain(stmts, root.list)
           steps == SelectSeq(trace, LAMBDA e : e.ev \in { "stmt", "done" })
           done == Done(trace)
       IN  /\ Len(steps) = 2 * Len(chain)
           /\ \A i \in 1 .. Len(chain) :
                 /\ steps[2 * i - 1].ev = "stmt"
                 /\ steps[2 * i - 1].n = chain[i]
                 /\ steps[2 * i].ev = "done"
                 /\ steps[2 * i].n = chain[i]
                 /\ steps[2 * i].rc = StatementCode(chain[i])
           /\ rc = ListCode(done)
           /\ (rc = EOK) = (\A i \in 1 .. Len(done) : done[i].rc = EOK)

\* the first statement failed on the store, the second failed as empty
C3_Witness ==
    /\ last.call = "ProcessCompoundStatement"
    /\ Len(Done(trace)) = 2
    /\ Done(trace)[1].rc \in StoreErrors
    /\ Done(trace)[2].rc = ENOTSUP
    /\ rc = ENOTSUP

(***************************************************************************)
(* C2.  ProcessIF on a condition and an ELSE node, the condition having    *)
(* evaluated to EOK: when the low 16 bits of the condition's value are     *)
(* not zero, the statements executed are those of the ELSE node's left     *)
(* list; when they are zero, those of its right list, and with no right    *)
(* list no statement is executed and the IF returns EOK.                   *)
(***************************************************************************)
IfCond == nodes[root.p].left
IfElse == nodes[root.p].right

\* what the evaluation of the condition returned
CondCode ==
    LET i == CHOOSE i \in 1 .. Len(trace) :
                /\ trace[i].ev = "ret"
                /\ trace[i].n = IfCond
                /\ \A j \in 1 .. (i - 1) : ~(trace[j].ev = "ret" /\ trace[j].n = IfCond)
    IN  trace[i].rc

IfEvaluated == last.call = "ProcessVariable" /\ RootOp = VA_IF

C2_IfSelectsBranch ==
    (IfEvaluated /\ WellFormed /\ CondCode = EOK) =>
       LET then == nodes[IfElse].left
           else == nodes[IfElse].right
           value == UI(nodes[IfCond].obj.val)
       IN  /\ value # 0 =>
                /\ Executed(trace) = Chain(stmts, then)
                /\ then # NULL => rc = ListCode(Done(trace))
           /\ (value = 0 /\ else # NULL) =>
                /\ Executed(trace) = Chain(stmts, else)
                /\ rc = ListCode(Done(trace))
           /\ (value = 0 /\ else = NULL) =>
                /\ Executed(trace) = << >>
                /\ rc = EOK

\* the condition 65536 is not zero, its low 16 bits are: the else-list ran
C2_Witness ==
    /\ IfEvaluated
    /\ WellFormed
    /\ IfCond = 2
    /\ CondCode = EOK
    /\ nodes[IfElse].left # NULL
    /\ nodes[IfElse].right # NULL
    /\ Executed(trace) = Chain(stmts, nodes[IfElse].right)

(***************************************************************************)
(* C7.  ProcessIF with no condition, with no right child, or with a right  *)
(* child that is not an ELSE node returns EINVAL and executes no           *)
(* statement.                                                              *)
(***************************************************************************)
C7_MalformedIfInvalid ==
    (IfEvaluated /\ ~WellFormed) =>
       /\ rc = EINVAL
       /\ Executed(trace) = << >>

\* the part of C7 that the code does keep: no statement is executed
C7_NoBranchExecuted ==
    (IfEvaluated /\ ~WellFormed) =>
       Executed(trace) = << >> /\ Calls(trace) = << >>

RECURSIVE NodeChain(_, _)
\* the nodes of the list at p, in scan order
NodeChain(ns, p) == IF p = NULL THEN << >> ELSE << p >> \o NodeChain(ns, ns[p].pNext)

Range(f) == { f[i] : i \in DOMAIN f }
IdsOf(ns, chain) == { ns[chain[i]].id : i \in DOMAIN chain }
\* the first node of the chain with this id
FirstWith(ns, chain, id) ==
    chain[CHOOSE i \in DOMAIN chain :
             /\ ns[chain[i]].id = id
             /\ \A j \in 1 .. (i - 1) : ns[chain[j]].id # id]

Declarations(m) == NodeChain(m.nodes, m.g_pDeclarations)
Sysvars(m) == NodeChain(m.nodes, m.g_pFirstSysvar)
Now == Snapshot(Machine(NoFault))
StoreNames == { store[h].name : h \in DOMAIN store }

Referenced == last.call = "NewIdentifier" /\ ~last.arg.declaration /\ last.arg.id # NullId

(***************************************************************************)
(* C9.  NewIdentifier( id, false ) returns the node of id in the current   *)
(* declaration list when there is one, whether or not the system-variable  *)
(* list or the store also has id; otherwise the node of id in the          *)
(* system-variable list when there is one; in both cases without a call    *)
(* to the store.  Only when both lists miss is the store looked up by      *)
(* name.                                                                   *)
(***************************************************************************)
C9_LocalThenGlobalThenStore ==
    Referenced =>
       LET id == last.arg.id
           local == id \in IdsOf(prev.nodes, Declarations(prev))
           global == id \in IdsOf(prev.nodes, Sysvars(prev))
       IN  /\ local =>
                /\ rc = FirstWith(prev.nodes, Declarations(prev), id)
                /\ nodes[rc].operation = VA_LOCALVAR
                /\ trace = << >>
                /\ Now = prev
           /\ (~local /\ global) =>
                /\ rc = FirstWith(prev.nodes, Sysvars(prev), id)
                /\ nodes[rc].operation = VA_SYSVAR
                /\ trace = << >>
                /\ Now = prev
           /\ (~local /\ ~global) =>
                /\ trace # << >>
                /\ trace[1].ev = "find"
                /\ trace[1].fn = id
                /\ rc # NULL => nodes[rc].operation = VA_SYSVAR /\ nodes[rc].id = id
                /\ rc # NULL => id \in StoreNames /\ last.env.getFail = { }
                /\ (id \notin StoreNames \/ last.env.getFail # { }) => rc = NULL

\* a is declared, cached and in the store: the reference gave the local
C9_Witness ==
    /\ Referenced
    /\ last.arg.id = IdA
    /\ IdA \in IdsOf(prev.nodes, Declarations(prev))
    /\ IdA \in IdsOf(prev.nodes, Sysvars(prev))
    /\ rc # NULL
    /\ nodes[rc].local

(***************************************************************************)
(* C10.  The system-variable list never holds two nodes of one             *)
(* identifier; a call leaves the nodes that were in it where they were     *)
(* and adds at most one, after them, which g_pLastSysvar then points to;   *)
(* a reference that the store resolved is in the list, and the list holds  *)
(* only identifiers of the store.                                          *)
(***************************************************************************)
C10_CacheAppendOnly ==
    LET cache == Sysvars(Now)
        before == Sysvars(prev)
    IN  /\ Cardinality(IdsOf(nodes, cache)) = Len(cache)
        /\ Cardinality(Range(cache)) = Len(cache)
        /\ Len(before) <= Len(cache)
        /\ Len(cache) <= Len(before) + 1
        /\ SubSeq(cache, 1, Len(before)) = before
        /\ \A i \in DOMAIN before : nodes[before[i]].id = prev.nodes[before[i]].id
        /\ g_pLastSysvar = (IF cache = << >> THEN NULL ELSE cache[Len(cache)])
        /\ IdsOf(nodes, cache) \subseteq StoreNames
        /\ Len(cache) > Len(before) =>
              /\ Referenced
              /\ rc = cache[Len(cache)]
              /\ last.arg.id \notin IdsOf(prev.nodes, before)
        /\ (Referenced /\ rc # NULL /\ nodes[rc].operation = VA_SYSVAR) =>
              rc \in Range(cache)

\* b was added after a, and a later reference to a added nothing
C10_Witness ==
    /\ Len(Sysvars(Now)) = 2
    /\ nodes[Sysvars(Now)[1]].id = IdA
    /\ nodes[Sysvars(Now)[2]].id = IdB
    /\ Referenced
    /\ last.arg.id = IdA
    /\ rc = Sysvars(Now)[1]
    /\ Sysvars(prev) = Sysvars(Now)

(***************************************************************************)
(* C11.  A reference to an identifier that neither list holds, and that    *)
(* the store does not know or whose first read from the store fails,       *)
(* returns no node and leaves the nodes, the declaration list and the      *)
(* system-variable list as they were; it has asked the store, and so does  *)
(* the next reference to the same identifier.                              *)
(***************************************************************************)
Finds(tr) == SelectSeq(tr, LAMBDA e : e.ev = "find")

\* the reference just made found its identifier in neither list
Missed ==
    /\ Referenced
    /\ last.arg.id \notin IdsOf(prev.nodes, Declarations(prev))
    /\ last.arg.id \notin IdsOf(prev.nodes, Sysvars(prev))

\* ... and the store did not know it, or failed the read of its value
Unresolved ==
    /\ Missed
    /\ last.arg.id \notin StoreNames \/ last.env.getFail # { }

\* the store was asked for id, once
Consulted(tr, id) == Len(Finds(tr)) = 1 /\ Finds(tr)[1].fn = id

C11_Step ==
    /\ Unresolved' =>
          /\ rc' = NULL
          /\ Now' = prev'
          /\ Consulted(trace', last'.arg.id)
          /\ last'.arg.id \in StoreNames' => Len(Gets(trace')) = 1
    /\ (Unresolved /\ Referenced' /\ last'.arg.id = last.arg.id) =>
          Consulted(trace', last.arg.id)

C11_FailedReferenceAddsNothing == [][C11_Step]_vars

\* the store knows a and b is cached, but the read of a failed
C11_Witness ==
    /\ Unresolved
    /\ last.arg.id = IdA
    /\ runs >= 2
    /\ Len(Sysvars(prev)) = 1
    /\ Len(Gets(trace)) = 1
    /\ Gets(trace)[1].rc # EOK
    /\ rc = NULL

(***************************************************************************)
(* C12.  A node flagged local is a VA_LOCALVAR with no store handle.       *)
(* Its creation by NewIdentifier( id, true ) calls the store for nothing,  *)
(* even when the store knows the name; and no evaluation of it, Assign to  *)
(* it, compound assignment to it, Inc or Dec of it, in any order, looks    *)
(* the store up or writes it, or reads it for anything but a system        *)
(* variable on the right of the assignment.                                *)
(***************************************************************************)
C12_LocalNeverReachesStore ==
    /\ \A p \in DOMAIN nodes :
          nodes[p].local =>
             nodes[p].operation = VA_LOCALVAR /\ nodes[p].hVar = VAR_INVALID
    /\ last.call = "NewIdentifier" =>
          /\ trace = << >>
          /\ rc = Len(nodes)
          /\ nodes[rc].local
          /\ nodes[rc].id = last.arg.id
          /\ store = prev.store
    /\ last.call = "ProcessVariable" =>
          /\ Finds(trace) = << >>
          /\ Sets(trace) = << >>
          /\ store = prev.store
          /\ \A i \in DOMAIN trace :
                trace[i].ev = "get" =>
                   /\ trace[i].n = nodes[2].hVar
                   /\ nodes[last.arg].right = 2

\* x-- changed x, after other calls, while the store would fail any write
C12_Witness ==
    /\ last.call = "ProcessVariable"
    /\ last.arg = 9
    /\ runs = MaxSteps
    /\ rc = EOK
    /\ last.env.setFail # { }
    /\ nodes[3].local
    /\ nodes[3].obj.val # prev.nodes[3].obj.val
    /\ Len(nodes) > 10

(***************************************************************************)
(* C13.  Inc and Dec of a 16-bit or 32-bit variable return EOK.  With a    *)
(* left operand (x++, x--) the result node takes the value the variable    *)
(* had before the call and the variable ends one higher, or one lower;     *)
(* with a right operand only (++x, --x) the variable ends one higher, or   *)
(* one lower, and the result node takes that new value.  One higher and    *)
(* one lower are modulo the width of the type.                             *)
(***************************************************************************)
\* v + 1 and v - 1 on the halves of a 32-bit value
Succ32(v) ==
    IF v.lo = W16 - 1 THEN [hi |-> (v.hi + 1) % W16, lo |-> 0]
    ELSE [hi |-> v.hi, lo |-> v.lo + 1]

Pred32(v) ==
    IF v.lo = 0 THEN [hi |-> (v.hi + W16 - 1) % W16, lo |-> W16 - 1]
    ELSE [hi |-> v.hi, lo |-> v.lo - 1]

\* the value of the node p of machine m at the width of the type
Value(m, p, type) ==
    IF type = VARTYPE_UINT16 THEN U32(m.nodes[p].obj.val.lo)
    ELSE [hi |-> m.nodes[p].obj.val.hi, lo |-> m.nodes[p].obj.val.lo]

\* one higher or lower at the width of the type
Stepped(v, type, up) ==
    LET w == IF up THEN Succ32(v) ELSE Pred32(v)
    IN  IF type = VARTYPE_UINT16 THEN U32(w.lo) ELSE w

C13_IncDecPositional ==
    (/\ last.call = "ProcessVariable"
     /\ nodes[last.arg].operation \in { VA_INC, VA_DEC }
     /\ nodes[3].obj.type \in { VARTYPE_UINT16, VARTYPE_UINT32 }) =>
       LET type == nodes[3].obj.type
           post == nodes[last.arg].left # NULL
           old == Value(prev, 3, type)
           new == Stepped(old, type, nodes[last.arg].operation = VA_INC)
       IN  /\ rc = EOK
           /\ Value(Now, 3, type) = new
           /\ Value(Now, last.arg, type) = (IF post THEN old ELSE new)
           /\ \A p \in DOMAIN nodes :
                 p \notin { 3, last.arg } => nodes[p] = prev.nodes[p]

\* 16-bit x was 5: x++ gave 5 and left 6, then ++x gave 7 and left 7
C13_Witness ==
    /\ last.call = "ProcessVariable"
    /\ last.arg = 8
    /\ nodes[3].obj.type = VARTYPE_UINT16
    /\ nodes[7].obj.val.lo = 5
    /\ prev.nodes[3].obj.val.lo = 6
    /\ nodes[8].obj.val.lo = 7
    /\ nodes[3].obj.val.lo = 7
    /\ rc = EOK

(***************************************************************************)
(* SpecMath: the binary, logical, compound and step operators on one pair  *)
(* of operands.  The left operand (node 1) is the system variable a of     *)
(* the store, or a string literal; the right one (node 2) is a literal of  *)
(* the same type.  The caller evaluates the statements one after the       *)
(* other; a store write may fail, and a shift by 32 or more ends as the    *)
(* build decides.                                                          *)
(***************************************************************************)
MathTypes == NumTypes \cup { VARTYPE_STR }

MathLeft(t) ==
    CASE t = VARTYPE_UINT16 -> { U32(0), U32(1), U32(W16 - 1) }
      [] t = VARTYPE_UINT32 -> { U32(0), U32(1), [hi |-> 1, lo |-> W16 - 1], TopU32 }
      [] t = VARTYPE_FLOAT -> { U32(0), U32(5) }
      [] t = VARTYPE_STR -> { << >>, << 1 >> }

MathRight(t) ==
    CASE t = VARTYPE_UINT16 -> { U32(1), U32(3), U32(16), U32(32), U32(W16 - 1) }
      [] t = VARTYPE_UINT32 ->
           { U32(1), U32(3), U32(16), U32(32), [hi |-> 1, lo |-> 0], TopU32 }
      [] t = VARTYPE_FLOAT -> { U32(1) }
      [] t = VARTYPE_STR -> { << 1, 2 >> }

\* the store holding a, of type t and value a
MathStore(t, a) ==
    IF t = VARTYPE_STR THEN << >>
    ELSE << StoreVar(IdA, t, IF t = VARTYPE_UINT16 THEN 2 ELSE 4,
                     SetUL(ZeroVal, IF t = VARTYPE_FLOAT THEN FloatBits(a.lo)
                                    ELSE a)) >>

MathLeftLeaf(m, t, a) ==
    IF t = VARTYPE_STR THEN NewString(m, a) ELSE NewIdentifier(m, IdA, FALSE)

MathRightLeaf(n, t, b) ==
    IF t = VARTYPE_STR THEN NewString(n.st, b) ELSE LocalLiteral(n.st, t, b)

MathRoots ==
    << Cmp(VA_ADD, 1, 2), Cmp(VA_SUB, 1, 2), Cmp(VA_MUL, 1, 2),
       Cmp(VA_BAND, 1, 2), Cmp(VA_BOR, 1, 2), Cmp(VA_XOR, 1, 2),
       Cmp(VA_LSHIFT, 1, 2), Cmp(VA_RSHIFT, 1, 2),
       Cmp(VA_AND, 1, 2), Cmp(VA_OR, 1, 2),
       Cmp(VA_AND_EQUALS, 1, 2), Cmp(VA_OR_EQUALS, 1, 2),
       Cmp(VA_XOR_EQUALS, 1, 2), Cmp(VA_INC, 1, NULL), Cmp(VA_DEC, 1, NULL) >>

MathProgram(t, a, b) ==
    BuildRoots(MathRightLeaf(MathLeftLeaf(Loaded(InitVarActionMap, MathStore(t, a)),
                                          t, a), t, b).st,
               MathRoots)

InitMath ==
    \E t \in MathTypes :
       \E a \in MathLeft(t), b \in MathRight(t) :
          Start(MathProgram(t, a, b), [kind |-> "math", p |-> 3])

MathEnvs ==
    { [Env({}, s, "EIO", EOK, "trap") EXCEPT !.shift = k] :
         s \in { {}, {1} }, k \in { "mask", "zero" } }

\* the caller evaluates the next statement
EvalMath ==
    /\ runs < Len(MathRoots)
    /\ \E env \in MathEnvs :
          Returning(ProcessVariable(Machine(env), 2 + runs + 1),
                    "ProcessVariable", 2 + runs + 1)

NextMath == EvalMath

SpecMath == InitMath /\ [][NextMath]_vars

(***************************************************************************)
(* SpecCast: the four casts of one source (node 1), a literal, a local     *)
(* string never assigned, or a local never declared (no type); then        *)
(* (int)(int) and (short)(short) of it, and a cast without operand.  The   *)
(* caller evaluates them in any order; memory may be exhausted, and the    *)
(* format pointer ToString never writes holds NULL or anything else.       *)
(***************************************************************************)
CastTypes == FourTypes \cup { VARTYPE_INVALID }

CastSources(t) ==
    CASE t = VARTYPE_UINT16 -> { U32(0), U32(5), U32(W16 - 1) }
      [] t = VARTYPE_UINT32 ->
           { U32(5), [hi |-> 1, lo |-> 2], [hi |-> 1, lo |-> 32768], TopU32 }
      [] t = VARTYPE_FLOAT -> { U32(0), U32(5) }
      [] t = VARTYPE_STR ->
           { [null |-> TRUE, s |-> << >>] }
           \cup { [null |-> FALSE, s |-> x] : x \in { << >>, << 52, 50 >>, << 120, 55 >> } }
      [] t = VARTYPE_INVALID -> { U32(0) }

CastLeaf(m, t, v) ==
    IF t = VARTYPE_INVALID THEN NewIdentifier(m, IdX, TRUE) ELSE CompareLeaf(m, t, v)

CastRoots ==
    << Cmp(VA_TOFLOAT, 1, NULL), Cmp(VA_TOINT, 1, NULL), Cmp(VA_TOSHORT, 1, NULL),
       Cmp(VA_TOSTRING, 1, NULL), Cmp(VA_TOINT, 3, NULL), Cmp(VA_TOSHORT, 4, NULL),
       Cmp(VA_TOINT, NULL, NULL) >>

CastProgram(t, v) ==
    BuildRoots(CastLeaf(Loaded(InitVarActionMap, << >>), t, v).st, CastRoots)

InitCast ==
    \E t \in CastTypes :
       \E v \in CastSources(t) :
          Start(CastProgram(t, v), [kind |-> "cast", p |-> 2])

CastEnvs ==
    { NoFault, [NoFault EXCEPT !.fmtspec = "wild"], [NoFault EXCEPT !.oom = TRUE] }

\* the caller evaluates one of the casts, unless the process is gone
EvalCast ==
    /\ runs < MaxCasts
    /\ rc \notin Signals
    /\ \E p \in 2 .. (1 + Len(CastRoots)), env \in CastEnvs :
          Returning(ProcessVariable(Machine(env), p), "ProcessVariable", p)

NextCast == EvalCast

SpecCast == InitCast /\ [][NextCast]_vars

(***************************************************************************)
(* SpecString: the string operators on two local strings x (node 1) and    *)
(* y (node 2), declared and not assigned, three string literals of 10, 3   *)
(* and 40 bytes (nodes 3, 4, 5) and the number 5 (node 6).  The caller     *)
(* evaluates the statements in any order; the allocator may be exhausted,  *)
(* and realloc may move the block.                                         *)
(***************************************************************************)
\* n bytes c
Filled(n, c) == [i \in 1 .. n |-> c]

StringLiterals == << Filled(10, 97), Filled(3, 98), Filled(40, 99) >>

StringLeaves ==
    LET n1 == DeclaredAs(NewIdentifier(Loaded(InitVarActionMap, << >>), IdX, TRUE),
                         VA_STRING)
        n2 == DeclaredAs(NewIdentifier(n1.st, IdB, TRUE), VA_STRING)
        n3 == NewString(n2.st, StringLiterals[1])
        n4 == NewString(n3.st, StringLiterals[2])
        n5 == NewString(n4.st, StringLiterals[3])
    IN  NewNumber(n5.st, U32(5), "U").st

StringRoots ==
    << Cmp(VA_ASSIGN, 1, 3), Cmp(VA_ASSIGN, 1, 4), Cmp(VA_ASSIGN, 1, 5),
       Cmp(VA_PLUS_EQUALS, 1, 4), Cmp(VA_ADD, 3, 4), Cmp(VA_ADD, 1, 4),
       Cmp(VA_ADD, 4, 2), Cmp(VA_PLUS_EQUALS, 1, 2), Cmp(VA_TOSTRING, 6, NULL) >>

InitString ==
    Start(BuildRoots(StringLeaves, StringRoots), [kind |-> "string", p |-> 7])

StringEnvs ==
    { NoFault, [NoFault EXCEPT !.moves = TRUE], [NoFault EXCEPT !.oom = TRUE] }

\* the caller evaluates one of the statements, unless the process is gone
EvalString ==
    /\ runs < MaxSteps
    /\ rc \notin Signals
    /\ \E p \in 7 .. (6 + Len(StringRoots)), env \in StringEnvs :
          Returning(ProcessVariable(Machine(env), p), "ProcessVariable", p)

NextString == EvalString

SpecString == InitString /\ [][NextString]_vars

(***************************************************************************)
(* SpecStep: Inc and Dec on the system variable a of the store (node 1)    *)
(* and on the local x (node 2), both of the 16-bit or the 32-bit type:     *)
(* a++ (3), ++a (4), a-- (5), --a (6), x++ (7), ++x (8), x-- (9) and       *)
(* --x (10).  The caller evaluates the statements one after the other; a   *)
(* store write may fail, with either code.                                 *)
(***************************************************************************)
StepTypes == { VARTYPE_UINT16, VARTYPE_UINT32 }

StepValues(t) ==
    IF t = VARTYPE_UINT16 THEN { U32(0), U32(W16 - 1) } ELSE { U32(0), TopU32 }

StepLeaves(t, a) ==
    LET m0 == Loaded(InitVarActionMap,
                     << StoreVar(IdA, t, IF t = VARTYPE_UINT16 THEN 2 ELSE 4,
                                 SetUL(ZeroVal, a)) >>)
        n1 == NewIdentifier(m0, IdA, FALSE)
    IN  Declared(NewIdentifier(n1.st, IdX, TRUE), TypeSpecifier(t))

StepRoots ==
    << Cmp(VA_INC, 1, NULL), Cmp(VA_INC, NULL, 1),
       Cmp(VA_DEC, 1, NULL), Cmp(VA_DEC, NULL, 1),
       Cmp(VA_INC, 2, NULL), Cmp(VA_INC, NULL, 2),
       Cmp(VA_DEC, 2, NULL), Cmp(VA_DEC, NULL, 2) >>

InitStep ==
    \E t \in StepTypes :
       \E a \in StepValues(t) :
          Start(BuildRoots(StepLeaves(t, a), StepRoots),
                [kind |-> "step", p |-> 3])

StepEnvs ==
    { NoFault } \cup { Env({}, {1}, e, EOK, "trap") : e \in StoreErrors }

\* the caller evaluates the next statement
EvalStep ==
    /\ runs < Len(StepRoots)
    /\ \E env \in StepEnvs :
          Returning(ProcessVariable(Machine(env), 2 + runs + 1),
                    "ProcessVariable", 2 + runs + 1)

NextStep == EvalStep

SpecStep == InitStep /\ [][NextStep]_vars

(***************************************************************************)
(* SpecTimer: the timer operations on the ids 0, 1, 2 and MAX_TIMERS       *)
(* (nodes 1 to 4) with a timeout of 1500 ms (node 5).  The caller          *)
(* evaluates the statements in any order, and between two evaluations its  *)
(* signal handler may report a timer as fired.                             *)
(***************************************************************************)
TimerLeaves ==
    LET n1 == NewNumber(Loaded(InitVarActionMap, << >>), U32(0), "")
        n2 == NewNumber(n1.st, U32(1), "")
        n3 == NewNumber(n2.st, U32(2), "")
        n4 == NewNumber(n3.st, U32(MAX_TIMERS), "")
    IN  NewNumber(n4.st, U32(1500), "").st

TimerRoots ==
    << Cmp(VA_CREATE_TIMER, 2, 5), Cmp(VA_CREATE_TICK, 2, 5),
       Cmp(VA_CREATE_TIMER, 3, 5),
       Cmp(VA_DELETE_TIMER, 2, NULL), Cmp(VA_DELETE_TIMER, 3, NULL),
       Cmp(VA_CREATE_TIMER, 1, 5), Cmp(VA_CREATE_TICK, 1, 5),
       Cmp(VA_DELETE_TIMER, 1, NULL),
       Cmp(VA_CREATE_TIMER, 4, 5), Cmp(VA_CREATE_TICK, 4, 5),
       Cmp(VA_DELETE_TIMER, 4, NULL),
       Cmp(VA_ACTIVE_TIMER, NULL, NULL) >>

InitTimer ==
    Start(BuildRoots(TimerLeaves, TimerRoots), [kind |-> "timer", p |-> 6])

Handles == 0 .. MaxHandle

\* what timer_create may do; only the first three statements reach it
TimerEnvs(p) ==
    IF p <= 8
    THEN { [NoFault EXCEPT !.handle = h] : h \in Handles }
            \cup { [NoFault EXCEPT !.timerFail = TRUE] }
    ELSE { NoFault }

EvalTimer ==
    /\ runs < MaxSteps
    /\ \E p \in 6 .. (5 + Len(TimerRoots)) :
          \E env \in TimerEnvs(p) :
             Returning(ProcessVariable(Machine(env), p), "ProcessVariable", p)

\* the caller's signal handler: SetTimer( id ), id the value of the signal
FireTimer ==
    /\ runs < MaxSteps
    /\ \E id \in 0 .. 2 :
          Commit(SetTimer(Machine(NoFault), id), "", "SetTimer", id)

NextTimer == EvalTimer \/ FireTimer

SpecTimer == InitTimer /\ [][NextTimer]_vars

(***************************************************************************)
(* The comparisons of SpecCompare, once all were evaluated.                *)
(***************************************************************************)
\* the comparison op of l with r, and the value left in its result node
RootOf(op, l, r) ==
    CHOOSE p \in DOMAIN nodes :
       nodes[p].operation = op /\ nodes[p].left = l /\ nodes[p].right = r

Bool(op, l, r) == nodes[RootOf(op, l, r)].obj.val.lo

AllCompared == runs = Len(CompareRoots)

IsNull(p) == nodes[p].obj.val.str = NULL
Bytes(p) == IF IsNull(p) THEN << >> ELSE heap[nodes[p].obj.val.str].data

(***************************************************************************)
(* C14.  On two operands of one type (16-bit, 32-bit, or strings both      *)
(* null or both not) NotEquals returns EOK and leaves in its result node   *)
(* 1 minus what Equals leaves in its own on the same operands.             *)
(***************************************************************************)
C14_NotEqualsComplement ==
    (/\ AllCompared
     /\ nodes[1].obj.type = VARTYPE_STR => IsNull(1) = IsNull(2)) =>
       Bool(VA_NOTEQUALS, 1, 2) = 1 - Bool(VA_EQUALS, 1, 2)

\* what the code does: NotEquals leaves what Equals leaves
C14_NotEqualsIsEquals ==
    /\ (last.call = "ProcessVariable") => rc = EOK
    /\ AllCompared =>
          /\ Bool(VA_NOTEQUALS, 1, 2) = Bool(VA_EQUALS, 1, 2)
          /\ nodes[RootOf(VA_NOTEQUALS, 1, 2)].obj =
                nodes[RootOf(VA_EQUALS, 1, 2)].obj

(***************************************************************************)
(* C15.  A null string compares as the empty string: with A null and B     *)
(* the empty string, Equals(A, B) = 1, GreaterThan(B, A) = 0,              *)
(* LessThan(A, B) = 0, GreaterThanOrEqual(A, B) = 1 and                    *)
(* LessThanOrEqual(B, A) = 1.                                              *)
(***************************************************************************)
NullAndEmpty ==
    /\ AllCompared
    /\ nodes[1].obj.type = VARTYPE_STR
    /\ IsNull(1)
    /\ ~IsNull(2)
    /\ Bytes(2) = << >>

C15_NullIsEmpty ==
    NullAndEmpty =>
       /\ Bool(VA_EQUALS, 1, 2) = 1
       /\ Bool(VA_GT, 2, 1) = 0
       /\ Bool(VA_LT, 1, 2) = 0
       /\ Bool(VA_GTE, 1, 2) = 1
       /\ Bool(VA_LTE, 2, 1) = 1

\* what the code does: a null string sorts before the empty string
C15_NullBeforeEmpty ==
    NullAndEmpty =>
       /\ Bool(VA_EQUALS, 1, 2) = 0
       /\ Bool(VA_GT, 2, 1) = 1
       /\ Bool(VA_LT, 1, 2) = 1
       /\ Bool(VA_GTE, 1, 2) = 0
       /\ Bool(VA_LTE, 2, 1) = 0
       /\ Bool(VA_EQUALS, 1, 1) = 1

(***************************************************************************)
(* C16.  On strings, null or not: exactly one of LessThan(A, B),           *)
(* Equals(A, B), GreaterThan(A, B) is 1; LessThan(A, B) is                 *)
(* GreaterThan(B, A); LessThan and GreaterThan are transitive; on strings  *)
(* that are not null they are the order of the bytes, read as unsigned;    *)
(* GreaterThanOrEqual is 1 - LessThan and LessThanOrEqual is               *)
(* 1 - GreaterThan; a string, null too, is >= and <= itself.               *)
(***************************************************************************)
\* s comes before t byte by byte, a proper prefix first
Before(s, t) ==
    \E k \in 1 .. (Len(t)) :
       /\ \A j \in 1 .. (k - 1) : j <= Len(s) /\ s[j] = t[j]
       /\ k = Len(s) + 1 \/ (k <= Len(s) /\ s[k] < t[k])

Truth(b) == IF b THEN 1 ELSE 0

C16_StringOrder ==
    /\ (runs > 0 /\ nodes[1].obj.type = VARTYPE_STR) => rc = EOK
    /\ (AllCompared /\ nodes[1].obj.type = VARTYPE_STR) =>
       /\ Bool(VA_LT, 1, 2) + Bool(VA_EQUALS, 1, 2) + Bool(VA_GT, 1, 2) = 1
       /\ Bool(VA_LT, 1, 2) = Bool(VA_GT, 2, 1)
       /\ (Bool(VA_LT, 1, 2) = 1 /\ Bool(VA_LT, 2, 3) = 1) => Bool(VA_LT, 1, 3) = 1
       /\ (Bool(VA_GT, 1, 2) = 1 /\ Bool(VA_GT, 2, 3) = 1) => Bool(VA_GT, 1, 3) = 1
       /\ (~IsNull(1) /\ ~IsNull(2)) =>
             /\ Bool(VA_LT, 1, 2) = Truth(Before(Bytes(1), Bytes(2)))
             /\ Bool(VA_GT, 1, 2) = Truth(Before(Bytes(2), Bytes(1)))
             /\ Bool(VA_EQUALS, 1, 2) = Truth(Bytes(1) = Bytes(2))
       /\ Bool(VA_GTE, 1, 2) = 1 - Bool(VA_LT, 1, 2)
       /\ Bool(VA_LTE, 1, 2) = 1 - Bool(VA_GT, 1, 2)
       /\ Bool(VA_LTE, 2, 1) = 1 - Bool(VA_GT, 2, 1)
       /\ Bool(VA_GTE, 1, 1) = 1
       /\ Bool(VA_LTE, 1, 1) = 1

\* null < the byte 1 < the byte 200: the three are in order
C16_Witness ==
    /\ AllCompared
    /\ IsNull(1)
    /\ Bytes(2) = << 1 >>
    /\ Bytes(3) = << 200 >>
    /\ Bool(VA_LT, 1, 2) = 1
    /\ Bool(VA_LT, 2, 3) = 1
    /\ Bool(VA_LT, 1, 3) = 1
    /\ Bool(VA_GT, 2, 1) = 1

(***************************************************************************)
(* C17.  Add, Sub, Multiply, Band, Bor, Xor, LShift and RShift on a        *)
(* 16-bit or 32-bit left operand return EOK and leave a result of the      *)
(* left operand's type whose value is the exact result modulo 2^16 or      *)
(* 2^32.                                                                   *)
(***************************************************************************)
WrapOps == { VA_ADD, VA_SUB, VA_MUL, VA_BAND, VA_BOR, VA_XOR, VA_LSHIFT, VA_RSHIFT }

RECURSIVE Doubled(_, _)
\* v * 2^n modulo 2^32
Doubled(v, n) == IF n = 0 THEN v ELSE Doubled(Add32(v, v), n - 1)

RECURSIVE Halved(_, _)
\* v \div 2^n
Halved(v, n) == IF n = 0 THEN v ELSE Halved(Div32(v, U32(2)), n - 1)

\* the shift count r moves every bit of a 32-bit value out
ShiftsOut(r) == r.hi # 0 \/ r.lo >= 32

\* l op r exactly, modulo 2^32
Exact32(op, l, r) ==
    CASE op = VA_ADD -> Add32(l, r)
      [] op = VA_SUB -> Sub32(l, r)
      [] op = VA_MUL -> Mul32(l, r)
      [] op = VA_BAND -> And32(l, r)
      [] op = VA_BOR -> Or32(l, r)
      [] op = VA_XOR -> Xor32(l, r)
      [] op = VA_LSHIFT -> IF ShiftsOut(r) THEN U32(0) ELSE Doubled(l, r.lo)
      [] op = VA_RSHIFT -> IF ShiftsOut(r) THEN U32(0) ELSE Halved(l, r.lo)

\* l op r exactly, modulo the width of the type
Exact(op, type, l, r) ==
    IF type = VARTYPE_UINT16 THEN U32(Exact32(op, l, r).lo) ELSE Exact32(op, l, r)

\* the last call evaluated one of ops on a left operand of one of types
Applied(ops, types) ==
    /\ last.call = "ProcessVariable"
    /\ nodes[last.arg].operation \in ops
    /\ nodes[1].obj.type \in types

WrapsAsExact ==
    /\ rc = EOK
    /\ nodes[last.arg].obj.type = nodes[1].obj.type
    /\ nodes[last.arg].obj.len = (IF nodes[1].obj.type = VARTYPE_UINT16 THEN 2 ELSE 4)
    /\ Value(Now, last.arg, nodes[1].obj.type) =
          Exact(nodes[last.arg].operation, nodes[1].obj.type,
                Value(Now, 1, nodes[1].obj.type),
                Value(Now, 2, nodes[1].obj.type))

C17_TypeKeptValueWraps ==
    Applied(WrapOps, { VARTYPE_UINT16, VARTYPE_UINT32 }) => WrapsAsExact

\* what the code does: so it is wherever the shift count is below 32
C17_WrapsBelowShiftLimit ==
    (/\ Applied(WrapOps, { VARTYPE_UINT16, VARTYPE_UINT32 })
     /\ (nodes[last.arg].operation \in { VA_LSHIFT, VA_RSHIFT } =>
            ~ShiftsOut(Value(Now, 2, nodes[1].obj.type)))) => WrapsAsExact

(***************************************************************************)
(* C18.  Band, Bor, Xor, LShift, RShift, And, Or, &=, |=, ^=, Inc and Dec  *)
(* on a float or string left operand return ENOTSUP, leave every node      *)
(* (the operands and the result node among them), the store and the        *)
(* string buffers as they were, and call VAR_Set not once.                 *)
(***************************************************************************)
IntegerOnlyOps ==
    { VA_BAND, VA_BOR, VA_XOR, VA_LSHIFT, VA_RSHIFT, VA_AND, VA_OR,
      VA_AND_EQUALS, VA_OR_EQUALS, VA_XOR_EQUALS, VA_INC, VA_DEC }

C18_IntegerOnlyRejects ==
    Applied(IntegerOnlyOps, { VARTYPE_FLOAT, VARTYPE_STR }) =>
       /\ rc = ENOTSUP
       /\ nodes = prev.nodes
       /\ store = prev.store
       /\ heap = prev.heap
       /\ Sets(trace) = << >>

\* a ^= 1 on the float system variable a = 5.0, under a store that accepts
\* the write
C18_Witness ==
    /\ Applied({ VA_XOR_EQUALS }, { VARTYPE_FLOAT })
    /\ nodes[1].operation = VA_SYSVAR
    /\ nodes[1].obj.val = SetUL(ZeroVal, FloatBits(5))
    /\ last.env.setFail = {}
    /\ rc = ENOTSUP
    /\ Gets(trace) # << >>

(***************************************************************************)
(* C19.  ToFloat, ToInt, ToShort and ToString on a source of any of the    *)
(* four types return EOK and leave the result node tagged with the type    *)
(* the cast converts to; ENOTSUP is returned for a source of another tag   *)
(* only, and EINVAL for a missing source only.                             *)
(***************************************************************************)
CastOps == { VA_TOFLOAT, VA_TOINT, VA_TOSHORT, VA_TOSTRING }

TargetType(op) ==
    CASE op = VA_TOFLOAT -> VARTYPE_FLOAT
      [] op = VA_TOINT -> VARTYPE_UINT32
      [] op = VA_TOSHORT -> VARTYPE_UINT16
      [] op = VA_TOSTRING -> VARTYPE_STR

\* the last call evaluated a cast, whose source is the node Source
Cast == last.call = "ProcessVariable" /\ nodes[last.arg].operation \in CastOps
Source == nodes[last.arg].left

C19_CastsAcceptFourTypes ==
    Cast =>
       /\ (Source # NULL /\ nodes[Source].obj.type \in FourTypes) =>
             /\ rc = EOK
             /\ nodes[last.arg].obj.type = TargetType(nodes[last.arg].operation)
       /\ rc = ENOTSUP => (Source # NULL /\ nodes[Source].obj.type \notin FourTypes)
       /\ rc = EINVAL => Source = NULL

\* what the code does: ToString refuses a string, and ends the process
\* where the format pointer is not NULL or there is no buffer; the rest is
\* as stated
C19_CastsAsCoded ==
    Cast =>
       LET op == nodes[last.arg].operation
       IN  /\ (Source # NULL /\ nodes[Source].obj.type \in FourTypes) =>
                 IF op # VA_TOSTRING
                 THEN rc = EOK /\ nodes[last.arg].obj.type = TargetType(op)
                 ELSE IF nodes[Source].obj.type = VARTYPE_STR
                 THEN rc = ENOTSUP /\ nodes[last.arg].obj.type = VARTYPE_STR
                 ELSE IF last.env.fmtspec = "wild" THEN rc = SIGSEGV
                 ELSE IF nodes[last.arg].obj.val.str = NULL THEN rc = SIGSEGV
                 ELSE rc = EOK /\ nodes[last.arg].obj.type = VARTYPE_STR
           /\ (Source # NULL /\ nodes[Source].obj.type \notin FourTypes) =>
                 rc = ENOTSUP
           /\ Source = NULL => rc = EINVAL

(***************************************************************************)
(* C20.  For a 16-bit or 32-bit source x, ToInt of ToInt(x) returns EOK    *)
(* with the tag (32-bit) and value of ToInt(x), which is x; ToShort of     *)
(* ToShort(x) returns EOK with the tag (16-bit) and value of ToShort(x),   *)
(* which is x modulo 2^16.                                                 *)
(***************************************************************************)
\* the last call evaluated a cast of the same cast of node 1
CastTwice ==
    /\ Cast
    /\ nodes[last.arg].operation \in { VA_TOINT, VA_TOSHORT }
    /\ Source # NULL
    /\ nodes[Source].operation = nodes[last.arg].operation
    /\ nodes[Source].left = 1

C20_IntegralCastsIdempotent ==
    (CastTwice /\ nodes[1].obj.type \in { VARTYPE_UINT16, VARTYPE_UINT32 }) =>
       LET type == TargetType(nodes[last.arg].operation)
       IN  /\ rc = EOK
           /\ nodes[last.arg].obj.type = type
           /\ nodes[Source].obj.type = type
           /\ nodes[last.arg].obj.len = nodes[Source].obj.len
           /\ Value(Now, last.arg, type) = Value(Now, Source, type)
           /\ Value(Now, Source, type) =
                 (IF type = VARTYPE_UINT16 THEN U32(nodes[1].obj.val.lo)
                  ELSE Value(Now, 1, nodes[1].obj.type))

\* (short)(short) of the 32-bit 0x18000 is 0x8000
C20_Witness ==
    /\ CastTwice
    /\ nodes[last.arg].operation = VA_TOSHORT
    /\ nodes[1].obj.type = VARTYPE_UINT32
    /\ Value(Now, 1, VARTYPE_UINT32) = [hi |-> 1, lo |-> 32768]
    /\ nodes[last.arg].obj.type = VARTYPE_UINT16
    /\ nodes[last.arg].obj.val.lo = 32768
    /\ rc = EOK

(***************************************************************************)
(* C21.  A successful string assignment, +=, Add or ToString lowers the    *)
(* recorded capacity (bufsize) of no node.  The node it allocates for      *)
(* (the left operand of = and +=, the result node of Add and ToString)     *)
(* gets another capacity, or another block, only if its capacity was       *)
(* below the requested length + 1, and then the capacity is the larger     *)
(* of 32 and the requested length + 1.                                     *)
(***************************************************************************)
StringOps == { VA_ASSIGN, VA_PLUS_EQUALS, VA_ADD, VA_TOSTRING }

\* the last call was a string operator that returned EOK
StringDone ==
    /\ last.call = "ProcessVariable"
    /\ rc = EOK
    /\ nodes[last.arg].operation \in StringOps

\* the node AllocateString was called for, and the length asked
Grown ==
    IF nodes[last.arg].operation \in { VA_ASSIGN, VA_PLUS_EQUALS }
    THEN nodes[last.arg].left ELSE last.arg

Requested ==
    CASE nodes[last.arg].operation = VA_ASSIGN ->
           prev.nodes[nodes[last.arg].right].obj.len
      [] nodes[last.arg].operation = VA_TOSTRING -> 64
      [] OTHER -> prev.nodes[nodes[last.arg].left].obj.len
                  + prev.nodes[nodes[last.arg].right].obj.len

Larger(a, b) == IF a > b THEN a ELSE b

\* the node has another capacity or another block than before the call
Reallocated(p) ==
    \/ nodes[p].bufsize # prev.nodes[p].bufsize
    \/ nodes[p].obj.val.str # prev.nodes[p].obj.val.str
    \/ Len(heap) # Len(prev.heap)

C21_CapacityNeverShrinks ==
    StringDone =>
       /\ \A p \in DOMAIN nodes : nodes[p].bufsize >= prev.nodes[p].bufsize
       /\ Reallocated(Grown) =>
             /\ prev.nodes[Grown].bufsize < Requested + 1
             /\ nodes[Grown].bufsize = Larger(32, Requested + 1)
       /\ nodes[Grown].bufsize >= Requested + 1

\* x = 10 bytes and x = 3 bytes were evaluated, the latter leaving the
\* capacity of 32; then x = 40 bytes moved x to a block of 41
C21_Witness ==
    /\ StringDone
    /\ last.arg = 9
    /\ runs = 3
    /\ nodes[7].obj.len = 10
    /\ nodes[8].obj.len = 3
    /\ nodes[8].bufsize = 32
    /\ prev.nodes[1].obj.len = 3
    /\ prev.nodes[1].bufsize = 32
    /\ nodes[1].bufsize = 41
    /\ nodes[1].obj.len = 40
    /\ last.env.moves

(***************************************************************************)
(* C22.  In every reachable state every node of type string whose          *)
(* content is not null has a recorded capacity (bufsize) of at least its   *)
(* length + 1.                                                             *)
(***************************************************************************)
HasContent(p) == nodes[p].obj.type = VARTYPE_STR /\ nodes[p].obj.val.str # NULL

C22_CapacityHoldsTerminator ==
    \A p \in DOMAIN nodes : HasContent(p) => nodes[p].bufsize >= nodes[p].obj.len + 1

\* what the code does: a literal records its length as its capacity (the
\* block strdup returned is one byte larger); the nodes the operators
\* allocated for are as stated
C22_LiteralRecordsLength ==
    \A p \in DOMAIN nodes :
       HasContent(p) =>
          IF nodes[p].operation = VA_STRING
          THEN /\ nodes[p].bufsize = nodes[p].obj.len
               /\ heap[nodes[p].obj.val.str].size = nodes[p].obj.len + 1
          ELSE nodes[p].bufsize >= nodes[p].obj.len + 1

(***************************************************************************)
(* C23.  Add and += on two strings with content leave a string of the      *)
(* sum of the two lengths holding the left bytes followed by the right     *)
(* ones: Add in the buffer of the result node, both operands as they       *)
(* were; += in the left operand.  (Without memory they return ENOMEM.)     *)
(* If the content of either operand is null they return ENOTSUP and no     *)
(* node and no buffer is changed.                                          *)
(***************************************************************************)
\* the last call evaluated + or += on two nodes of type string
Joined ==
    /\ last.call = "ProcessVariable"
    /\ nodes[last.arg].operation \in { VA_ADD, VA_PLUS_EQUALS }
    /\ prev.nodes[nodes[last.arg].left].obj.type = VARTYPE_STR
    /\ prev.nodes[nodes[last.arg].right].obj.type = VARTYPE_STR

\* the content and the bytes of node p before the call, and its bytes now
WasNull(p) == prev.nodes[p].obj.val.str = NULL
PrevData(p) == prev.heap[prev.nodes[p].obj.val.str].data
Data(p) == heap[nodes[p].obj.val.str].data

\* node p and its bytes are as before the call
Untouched(p) == nodes[p] = prev.nodes[p] /\ Data(p) = PrevData(p)

JoinedInto(p, l, r) ==
    /\ nodes[p].obj.type = VARTYPE_STR
    /\ nodes[p].obj.len = prev.nodes[l].obj.len + prev.nodes[r].obj.len
    /\ Data(p) = PrevData(l) \o PrevData(r)
    /\ Len(Data(p)) = nodes[p].obj.len

C23_Concatenation ==
    Joined =>
       LET l == nodes[last.arg].left
           r == nodes[last.arg].right
       IN  IF WasNull(l) \/ WasNull(r)
           THEN rc = ENOTSUP /\ nodes = prev.nodes /\ heap = prev.heap
           ELSE /\ rc \in { EOK, ENOMEM }
                /\ rc = ENOMEM => last.env.oom
                /\ (rc = EOK /\ nodes[last.arg].operation = VA_ADD) =>
                      /\ JoinedInto(last.arg, l, r)
                      /\ Untouched(l)
                      /\ Untouched(r)
                      /\ nodes[last.arg].obj.val.str
                            \notin { nodes[l].obj.val.str, nodes[r].obj.val.str }
                /\ (rc = EOK /\ nodes[last.arg].operation = VA_PLUS_EQUALS) =>
                      /\ JoinedInto(l, l, r)
                      /\ Untouched(r)
                      /\ nodes[last.arg].obj.val.str = nodes[l].obj.val.str
                      /\ nodes[last.arg].obj.len = nodes[l].obj.len

\* x held the 40 bytes; x += the 3 bytes left 43 bytes in x
C23_Witness ==
    /\ Joined
    /\ nodes[last.arg].operation = VA_PLUS_EQUALS
    /\ rc = EOK
    /\ PrevData(1) = StringLiterals[3]
    /\ Data(1) = StringLiterals[3] \o StringLiterals[2]
    /\ nodes[1].obj.len = 43
    /\ nodes[1].bufsize = 44

(***************************************************************************)
(* The timers of SpecTimer.                                                *)
(***************************************************************************)
\* the last call evaluated a statement of one of the operations ops
TimerDone(ops) ==
    /\ last.call = "ProcessVariable"
    /\ nodes[last.arg].operation \in ops

\* the id that statement names, and the value left in its result node
TimerId == UI(nodes[nodes[last.arg].left].obj.val)

TimerValue == UI(nodes[last.arg].obj.val)

InRange(id) == id > 0 /\ id < MAX_TIMERS

\* the timers the operating system holds for id
LiveFor(os, id) == { t \in os : t.id = id }

\* before the call the slot of id held the handle of a timer of id that exists
ArmedBefore(id) ==
    \E t \in prev.os_timers : t.id = id /\ t.h = prev.timers[id]

\* the calls of the timer facility the last call made, in order
OsCalls(tr) ==
    SelectSeq(tr, LAMBDA e : e.ev \in { "timer_create", "timer_delete" })

\* it deleted the timer the slot of id held, then created one for id
DeletedThenCreated(c, id) ==
    /\ Len(c) = 2
    /\ c[1].ev = "timer_delete" /\ c[1].n = prev.timers[id] /\ c[1].rc = EOK
    /\ c[2].ev = "timer_create" /\ c[2].l = id

Replaces(id) ==
    /\ rc = EOK /\ TimerValue = 1
    /\ DeletedThenCreated(OsCalls(trace), id)
    /\ Cardinality(LiveFor(os_timers, id)) = 1

\* C24: VACreateTimer or VACreateTick on an id in (0, MAX_TIMERS) whose slot
\* holds an armed timer returns success with result value 1, deletes the
\* timer of that id before it creates the new one, and leaves exactly one
\* timer of that id in the operating system.
C24_CreateReplacesArmed ==
    (TimerDone({ VA_CREATE_TIMER, VA_CREATE_TICK }) /\ InRange(TimerId)
        /\ ArmedBefore(TimerId))
       => Replaces(TimerId)

\* the timers of id in the operating system after the call, less those before
Gained(id) ==
    Cardinality(LiveFor(os_timers, id)) - Cardinality(LiveFor(prev.os_timers, id))

\* C24, as the code has it: the call reports success whatever timer_create
\* returned; a slot holding the handle 0 is taken for empty, and its timer
\* stays beside the new one; otherwise the timer is deleted first, and
\* nothing replaces it if timer_create fails.
C24_ReplacesUnlessZeroOrRefused ==
    (TimerDone({ VA_CREATE_TIMER, VA_CREATE_TICK }) /\ InRange(TimerId)
        /\ ArmedBefore(TimerId))
       => /\ rc = EOK /\ TimerValue = 1
          /\ prev.timers[TimerId] # 0
                => /\ DeletedThenCreated(OsCalls(trace), TimerId)
                   /\ Gained(TimerId) = IF last.env.timerFail THEN -1 ELSE 0
          /\ prev.timers[TimerId] = 0
                => /\ Len(OsCalls(trace)) = 1
                   /\ OsCalls(trace)[1].ev = "timer_create"
                   /\ Gained(TimerId) = IF last.env.timerFail THEN 0 ELSE 1

\* before the call the slot of id held no armed timer: none was created
\* for id, or a delete removed it
NotArmedBefore(id) == LiveFor(prev.os_timers, id) = {}

\* C25: VADeleteTimer on an id in (0, MAX_TIMERS) whose slot holds no armed
\* timer returns ENOENT with result value 0 and calls no timer_delete, and
\* after a delete that succeeded the slot of the id holds no timer.
C25_DeleteAbsentNotFound ==
    (TimerDone({ VA_DELETE_TIMER }) /\ InRange(TimerId))
       => /\ NotArmedBefore(TimerId)
                => /\ rc = ENOENT /\ TimerValue = 0
                   /\ OsCalls(trace) = << >>
          /\ rc = EOK => timers[TimerId] = 0

\* C25, as the code has it: VADeleteTimer hands whatever the slot holds to
\* timer_delete and returns its errno, and it never writes the slot.
C25_DeleteAsksTheSystem ==
    (TimerDone({ VA_DELETE_TIMER }) /\ InRange(TimerId))
       => /\ Len(OsCalls(trace)) = 1
          /\ OsCalls(trace)[1].ev = "timer_delete"
          /\ OsCalls(trace)[1].n = prev.timers[TimerId]
          /\ rc = OsCalls(trace)[1].rc
          /\ rc \in { EOK, EINVAL }
          /\ TimerValue = (IF rc = EOK THEN 1 ELSE 0)
          /\ timers = prev.timers

\* C26: VACreateTimer, VACreateTick and VADeleteTimer called with id 0 or
\* with an id >= MAX_TIMERS return ENOENT with result value 0, call neither
\* timer_create nor timer_delete and leave the registry and the timers of
\* the operating system as they were; slot 0 of the registry never holds
\* a timer, and no timer carries the id 0.
C26_IdsStrictlyInRange ==
    /\ (TimerDone({ VA_CREATE_TIMER, VA_CREATE_TICK, VA_DELETE_TIMER })
           /\ ~InRange(TimerId))
          => /\ rc = ENOENT /\ TimerValue = 0
             /\ nodes[last.arg].obj.type = VARTYPE_UINT16
             /\ OsCalls(trace) = << >>
             /\ timers = prev.timers
             /\ os_timers = prev.os_timers
    /\ timers[0] = 0
    /\ LiveFor(os_timers, 0) = {}

\* a tick asked for the id MAX_TIMERS after a timer was created for id 1
C26_Witness ==
    /\ TimerDone({ VA_CREATE_TICK }) /\ TimerId = MAX_TIMERS
    /\ rc = ENOENT /\ TimerValue = 0
    /\ \E t \in os_timers : t.id = 1 /\ timers[1] = t.h
    /\ prev.nodes[last.arg].obj.len = 0

\* C27: the active timer is 0 before any SetTimer call; a SetTimer call
\* leaves the id it was given, whatever the value was; no evaluation (a
\* read, a create, a delete) changes it; VAGetActiveTimer returns EOK with
\* the value as a uint16 result.  So a read returns the id of the most
\* recent SetTimer call.
C27_ActiveTimerLastWriteWins ==
    /\ runs = 0 => activeTimer = 0
    /\ last.call = "SetTimer" => activeTimer = last.arg
    /\ last.call = "ProcessVariable" => activeTimer = prev.activeTimer
    /\ TimerDone({ VA_ACTIVE_TIMER })
          => /\ rc = EOK
             /\ TimerValue = activeTimer
             /\ nodes[last.arg].obj.type = VARTYPE_UINT16
             /\ nodes[last.arg].obj.len = 2

\* SetTimer was called twice (no statement was evaluated: no result node
\* is written), then the active timer was read, and the read returned 2
C27_Witness ==
    /\ runs = 3
    /\ last.call = "ProcessVariable"
    /\ nodes[last.arg].operation = VA_ACTIVE_TIMER
    /\ UI(nodes[last.arg].obj.val) = 2
    /\ prev.nodes[last.arg].obj.len = 0
    /\ \A p \in 6 .. (4 + Len(TimerRoots)) : nodes[p].obj.len = 0

(***************************************************************************)
(* C28.  The compound bitwise assignments of SpecMath.                     *)
(***************************************************************************)
CompoundBitOps == { VA_AND_EQUALS, VA_OR_EQUALS, VA_XOR_EQUALS }

\* the operator each of them stands for
OperatorOf(op) ==
    CASE op = VA_AND_EQUALS -> VA_BAND
      [] op = VA_OR_EQUALS -> VA_BOR
      [] op = VA_XOR_EQUALS -> VA_XOR

\* the operator of the handler InitVarAction installs for each of them
InstalledOperatorOf(op) ==
    CASE op = VA_AND_EQUALS -> VA_BAND
      [] op = VA_OR_EQUALS -> VA_BAND
      [] op = VA_XOR_EQUALS -> VA_XOR

\* the value of the left operand a, which the evaluation reads from the store
Fetched(type) ==
    IF type = VARTYPE_UINT16 THEN U32(prev.store[1].obj.val.lo)
    ELSE UL(prev.store[1].obj.val)

\* the left operand and the result node hold Fetched op right
LeftAndResultHold(op) ==
    /\ Value(Now, 1, nodes[1].obj.type) =
          Exact(op, nodes[1].obj.type, Fetched(nodes[1].obj.type),
                Value(Now, 2, nodes[1].obj.type))
    /\ Value(Now, last.arg, nodes[1].obj.type) =
          Value(Now, 1, nodes[1].obj.type)

\* C28: evaluating a VA_AND_EQUALS, VA_OR_EQUALS or VA_XOR_EQUALS node with
\* 16- or 32-bit operands leaves the left operand and the result equal to
\* left & right, left | right and left ^ right.
C28_CompoundBitwiseOwnHandler ==
    Applied(CompoundBitOps, { VARTYPE_UINT16, VARTYPE_UINT32 })
       => LeftAndResultHold(OperatorOf(nodes[last.arg].operation))

\* C28, as the code has it: VA_OR_EQUALS yields left & right, as
\* VA_AND_EQUALS does.
C28_OrEqualsIsAndEquals ==
    Applied(CompoundBitOps, { VARTYPE_UINT16, VARTYPE_UINT32 })
       => /\ LeftAndResultHold(InstalledOperatorOf(nodes[last.arg].operation))
          /\ Calls(trace)[Len(Calls(trace))].fn =
                (IF nodes[last.arg].operation = VA_XOR_EQUALS
                 THEN "XorEquals" ELSE "AndEquals")

(***************************************************************************)
(* C29.  The IF statements of SpecIf whose condition fails.                *)
(***************************************************************************)
\* the statements started and the scripts run by the last call
Ran(tr) == SelectSeq(tr, LAMBDA e : e.ev \in { "stmt", "script" })

\* C29: when the evaluation of the condition of a well-formed IF returns a
\* code other than EOK, no statement of the then-list or of the else-list
\* is executed and the IF returns that code.
C29_FailedConditionSkipsBranches ==
    (IfEvaluated /\ WellFormed /\ CondCode # EOK) =>
       /\ Executed(trace) = << >>
       /\ Ran(trace) = << >>
       /\ rc = CondCode
       /\ trace[Len(trace) - 1].ev = "ret" /\ trace[Len(trace) - 1].n = IfCond

\* the read of the condition a failed in the store; both lists hold
\* statements, and a is not zero
C29_Witness ==
    /\ IfEvaluated
    /\ WellFormed
    /\ IfCond = 3
    /\ CondCode \in StoreErrors
    /\ rc = CondCode
    /\ nodes[IfElse].left # NULL
    /\ nodes[IfElse].right # NULL
    /\ UI(store[1].obj.val) # 0
    /\ Ran(trace) = << >>

(***************************************************************************)
(* C30.  Inc and Dec of SpecStep.                                          *)
(***************************************************************************)
StepDone ==
    /\ last.call = "ProcessVariable"
    /\ nodes[last.arg].operation \in { VA_INC, VA_DEC }

\* the operand of the statement: the left child (post) or the right (pre)
StepOperand ==
    IF nodes[last.arg].left # NULL THEN nodes[last.arg].left
    ELSE nodes[last.arg].right

\* the operand's value before the step, as the evaluation read it from the
\* store, then one higher or lower
Mutated(type) ==
    Stepped(IF type = VARTYPE_UINT16 THEN U32(prev.store[1].obj.val.lo)
            ELSE UL(prev.store[1].obj.val),
            type, nodes[last.arg].operation = VA_INC)

\* the one write w carries the stepped value, which the operand holds, and
\* the handler returns what the write returned
WroteMutated(w, type) ==
    /\ Len(w) = 1
    /\ w[1].n = nodes[StepOperand].hVar
    /\ (IF type = VARTYPE_UINT16 THEN U32(w[1].val.lo) ELSE UL(w[1].val))
          = Mutated(type)
    /\ Value(Now, StepOperand, type) = Mutated(type)
    /\ rc = w[1].rc
    /\ rc = EOK => store[1].obj.val = nodes[StepOperand].obj.val
    /\ rc # EOK => rc = last.env.storeErr /\ store = prev.store

\* C30: Inc and Dec on an operand of operation VA_SYSVAR issue exactly one
\* store write, carrying the value the operand holds after the step, in the
\* pre and in the post form; if the write fails the handler returns the
\* store's error and the operand stays stepped; on a local operand no
\* write is issued.
C30_StepWritesOnce ==
    StepDone =>
       /\ nodes[StepOperand].operation = VA_SYSVAR
             => WroteMutated(Sets(trace), nodes[StepOperand].obj.type)
       /\ nodes[StepOperand].local
             => /\ Sets(trace) = << >>
                /\ store = prev.store
                /\ rc = EOK
                /\ nodes[StepOperand].obj.val # prev.nodes[StepOperand].obj.val

\* ++a on a = 65535 of 16 bits after a++ had failed, the store refusing the
\* write: a is 0 in memory, 65535 in the store
C30_Witness ==
    /\ StepDone
    /\ last.arg = 4
    /\ nodes[1].obj.type = VARTYPE_UINT16
    /\ rc = "EACCES"
    /\ prev.store[1].obj.val.lo = W16 - 1
    /\ nodes[1].obj.val.lo = 0
    /\ nodes[4].obj.val.lo = 0
    /\ store[1].obj.val.lo = W16 - 1
    /\ Len(Sets(trace)) = 1

=============================================================================
